---- MODULE Spec2Model ----
(***************************************************************************)
(* Identifier resolution of tutumcli (src/tutumcli/utils.py): the remote   *)
(* resolvers fetch_remote_app / fetch_remote_container, the local resolver *)
(* fetch_local_app_container over the inventory built by                    *)
(* get_current_apps_and_its_containers, and the reconciler                  *)
(* launch_queries_in_parallel.                                              *)
(*                                                                          *)
(* Strings are sequences of one-character strings, so that prefix tests     *)
(* and the regular expressions of the source are computed, not assumed.     *)
(* Memory sizes are decimal numerals kept as strings: the size table holds  *)
(* values above 2^31 - 1 and only their equality is ever tested.            *)
(***************************************************************************)
EXTENDS Integers, Sequences, FiniteSets, TLC

VARIABLES
    remoteApps,        \* applications held by the remote platform
    remoteContainers,  \* containers held by the remote platform
    engine,            \* the local engine's container listing, in listing order
    now,               \* datetime.utcnow() of an inventory build
    call,              \* the entry point being executed, "none" between calls
    identifier,        \* its identifier argument
    pc,                \* position inside launch_queries_in_parallel
    appsTask,          \* apps_result: the pool task running fetch_remote_app
    containersTask,    \* containers_result: the pool task running fetch_remote_container
    localTask,         \* the call of fetch_local_app_container at line 216
    result,            \* what the entry point returned or raised
    last,              \* a direct resolver call's flag and its collaborators' behaviour
    already_deployed,  \* the default of create_containers_for_an_app's already_deployed
    cli                \* a command of commands.py being run: its arguments, loop and output

vars == <<remoteApps, remoteContainers, engine, now, call, identifier, pc,
          appsTask, containersTask, localTask, result, last, already_deployed, cli>>

world == <<remoteApps, remoteContainers, engine, now>>

\* what belongs to the process and no resolver touches
process == <<already_deployed, cli>>

----------------------------------------------------------------------------
(* Bounds of the model. *)

\* largest number of applications, and of containers, on the remote platform
MaxRemote == 2
\* largest number of containers listed by the local engine
MaxLocal == 2
\* longest list of containers an application status is calculated from
MaxMembers == 3
\* largest number of containers listed when the inventory is built on its own
MaxListed == 3
MaxCreated == 2
MaxIdentifiers == 2
MaxPorts == 2

----------------------------------------------------------------------------
(* Strings. *)

Dash == <<"-">>
HexDigits == {"0", "1", "2", "3", "4", "5", "6", "7", "8", "9",
              "a", "b", "c", "d", "e", "f", "A", "B", "C", "D", "E", "F"}
Digits == {"0", "1", "2", "3", "4", "5", "6", "7", "8", "9"}
Letters == {"a", "b", "c", "d", "e", "f", "g", "h", "i", "j", "k", "l", "m",
            "n", "o", "p", "q", "r", "s", "t", "u", "v", "w", "x", "y", "z",
            "A", "B", "C", "D", "E", "F", "G", "H", "I", "J", "K", "L", "M",
            "N", "O", "P", "Q", "R", "S", "T", "U", "V", "W", "X", "Y", "Z"}

\* str.startswith
StartsWith(s, p) ==
    /\ Len(p) <= Len(s)
    /\ SubSeq(s, 1, Len(p)) = p

s_ab == <<"a", "b">>
s_ab12 == <<"a", "b", "1", "2">>
s_ab99 == <<"a", "b", "9", "9">>
s_cd34 == <<"c", "d", "3", "4">>
s_web == <<"w", "e", "b">>
s_zz == <<"z", "z">>
s_local_web == <<"l", "o", "c", "a", "l", "-", "w", "e", "b">>
s_local_web_1 == s_local_web \o <<"-", "1">>
s_local_web_2 == s_local_web \o <<"-", "2">>
s_local_web_1_1 == s_local_web_1 \o <<"-", "1">>
s_local_db_1 == <<"l", "o", "c", "a", "l", "-", "d", "b", "-", "1">>
s_c1 == <<"c", "1">>
s_c1a1 == <<"c", "1", "a", "1">>
s_c1b2 == <<"c", "1", "b", "2">>
s_c1d4 == <<"c", "1", "d", "4">>

\* xxxxxxxx-yyyy-4zzz-Vzzz-wwwwwwwwwwww
MkUuid(g1, g2, ver, variant, g5) ==
    g1 \o g1 \o Dash \o g2 \o Dash \o ver \o <<"b", "1", "2">> \o Dash
       \o variant \o <<"b", "1", "2">> \o Dash \o g5 \o g5 \o g5

UUID_A == MkUuid(s_ab12, s_ab12, <<"4">>, <<"8">>, s_ab12)
UUID_B == MkUuid(s_ab99, s_ab12, <<"4">>, <<"9">>, s_ab12)
UUID_C == MkUuid(s_cd34, s_ab12, <<"4">>, <<"a">>, s_ab12)
UUID_D == MkUuid(s_cd34, s_cd34, <<"4">>, <<"B">>, s_cd34)
UUID_K == MkUuid(s_ab12, s_cd34, <<"4">>, <<"b">>, s_ab12)
UUID_L == MkUuid(s_cd34, s_ab99, <<"4">>, <<"8">>, s_ab12)
UUID_M == MkUuid(s_ab99, s_ab99, <<"4">>, <<"9">>, s_ab12)

\* a full UUID4 followed by one more character
UUID_A_x == UUID_A \o <<"x">>

\* the identifiers a user may pass
Identifiers ==
    {UUID_A, UUID_D, s_ab12, s_ab, s_web, s_local_web, s_local_web_1, s_c1, s_c1a1, s_zz,
     UUID_A_x}

----------------------------------------------------------------------------
(* Identifier classifier. *)

\* is_uuid4 with the pattern anchored at the end of the string as well
is_uuid4_WholeString(s) ==
    /\ Len(s) = 36
    /\ \A i \in 1..36 :
          CASE i \in {9, 14, 19, 24} -> s[i] = "-"
            [] i = 15 -> s[i] = "4"
            [] i = 20 -> s[i] \in {"8", "9", "a", "b", "A", "B"}
            [] OTHER -> s[i] \in HexDigits

\* re.compile('^[a-f0-9]{8}-[a-f0-9]{4}-4[a-f0-9]{3}-[89ab][a-f0-9]{3}-[a-f0-9]{12}', re.I)
\* applied with match(): anchored at the start, not at the end
is_uuid4(s) ==
    /\ Len(s) >= 36
    /\ \A i \in 1..36 :
          CASE i \in {9, 14, 19, 24} -> s[i] = "-"
            [] i = 15 -> s[i] = "4"
            [] i = 20 -> s[i] \in {"8", "9", "a", "b", "A", "B"}
            [] OTHER -> s[i] \in HexDigits

----------------------------------------------------------------------------
(* The remote platform, as the resolvers consume it. *)

RemoteObj(u, n) == [uuid |-> u, unique_name |-> n]

AppPool ==
    {RemoteObj(UUID_A, s_web), RemoteObj(UUID_B, s_ab12), RemoteObj(UUID_C, s_local_web)}

ContainerPool ==
    {RemoteObj(UUID_K, s_web), RemoteObj(UUID_L, UUID_D), RemoteObj(UUID_M, UUID_D)}

NoObj == [none |-> TRUE]

\* tutum.<Kind>.fetch(identifier): the object with that uuid, an exception if there is none
Fetch(objs, ident) == {o \in objs : o.uuid = ident}

\* tutum.<Kind>.list(unique_name=identifier)
ListByName(objs, ident) == {o \in objs : o.unique_name = ident}

\* tutum.<Kind>.list(uuid__startswith=identifier)
ListByUuidPrefix(objs, ident) == {o \in objs : StartsWith(o.uuid, ident)}

\* How the remote platform answers the calls of one lookup: all of them, or with a
\* transport-level failure (connection refused, timeout, HTTP 5xx) of the first or of
\* the second call the lookup issues.
Nets == {"up", "first_call_fails", "second_call_fails"}
NetUp == "up"

\* What a resolver call did: returned a value or raised, the class of that value
\* (an object, or the exception), the object, and the remote calls it issued.
Return(tag, obj, calls) == [how |-> "return", tag |-> tag, obj |-> obj, calls |-> calls]
Raise(tag, calls) == [how |-> "raise", tag |-> tag, obj |-> NoObj, calls |-> calls]

ResolutionErrors == {"ObjectNotFound", "NonUniqueIdentifier"}

----------------------------------------------------------------------------
(* Remote resolvers. *)

\* lines 69-73 / 92-96: one element is returned, none and many are raised
ReduceSameIdentifier(objects_same_identifier, calls) ==
    IF Cardinality(objects_same_identifier) = 1
    THEN Return("obj", CHOOSE o \in objects_same_identifier : TRUE, calls)
    ELSE IF Cardinality(objects_same_identifier) = 0
         THEN Raise("ObjectNotFound", calls)
         ELSE Raise("NonUniqueIdentifier", calls)

\* HandleResolutionError returning the exception whatever raise_exceptions is
HandleResolutionError_AlwaysReturns(r, raise_exceptions) ==
    IF r.how = "raise" /\ r.tag \in ResolutionErrors
    THEN [r EXCEPT !.how = "return"]
    ELSE r

\* the except clause closing each resolver, lines 75-78 / 97-100: the exception is
\* returned as a value when raise_exceptions is false
HandleResolutionError(r, raise_exceptions) ==
    IF r.how = "raise" /\ r.tag \in ResolutionErrors /\ ~raise_exceptions
    THEN [r EXCEPT !.how = "return"]
    ELSE r

\* ListSameIdentifier concatenating the two lists
ListSameIdentifier_Union(objs, ident, net) ==
    IF net = "first_call_fails"
    THEN Raise("TransportError", <<"list_unique_name">>)
    ELSE IF net = "second_call_fails"
         THEN Raise("TransportError", <<"list_unique_name", "list_uuid__startswith">>)
         ELSE ReduceSameIdentifier(ListByName(objs, ident) \cup ListByUuidPrefix(objs, ident),
                                   <<"list_unique_name", "list_uuid__startswith">>)

\* tutum.<Kind>.list(unique_name=identifier) or tutum.<Kind>.list(uuid__startswith=identifier)
\* lines 67-68 / 90-91: the second list is evaluated only when the first is empty
ListSameIdentifier(objs, ident, net) ==
    IF net = "first_call_fails"
    THEN Raise("TransportError", <<"list_unique_name">>)
    ELSE IF ListByName(objs, ident) # {}
         THEN ReduceSameIdentifier(ListByName(objs, ident), <<"list_unique_name">>)
         ELSE IF net = "second_call_fails"
              THEN Raise("TransportError", <<"list_unique_name", "list_uuid__startswith">>)
              ELSE ReduceSameIdentifier(ListByUuidPrefix(objs, ident),
                                        <<"list_unique_name", "list_uuid__startswith">>)

\* FetchById searching by name and uuid prefix when the fetch fails
FetchById_FallsBackToList(objs, ident, net) ==
    IF net = "first_call_fails" \/ Fetch(objs, ident) = {}
    THEN ListSameIdentifier(objs, ident, "up")
    ELSE Return("obj", CHOOSE o \in Fetch(objs, ident) : TRUE, <<"fetch">>)

\* try: return tutum.<Kind>.fetch(identifier) / except Exception: raise ObjectNotFound
\* lines 62-65 / 85-88
FetchById(objs, ident, net) ==
    IF net = "first_call_fails" \/ Fetch(objs, ident) = {}
    THEN Raise("ObjectNotFound", <<"fetch">>)
    ELSE Return("obj", CHOOSE o \in Fetch(objs, ident) : TRUE, <<"fetch">>)

fetch_remote_container(ident, raise_exceptions, net) ==
    HandleResolutionError(
        IF is_uuid4(ident)
        THEN FetchById(remoteContainers, ident, net)
        ELSE ListSameIdentifier(remoteContainers, ident, net),
        raise_exceptions)

fetch_remote_app(ident, raise_exceptions, net) ==
    HandleResolutionError(
        IF is_uuid4(ident)
        THEN FetchById(remoteApps, ident, net)
        ELSE ListSameIdentifier(remoteApps, ident, net),
        raise_exceptions)

----------------------------------------------------------------------------
(* The local engine and the inventory built from it. *)

CONTAINER_SIZE ==
    [XS |-> [cpu_shares |-> 256, memory |-> "268435456"],
     S  |-> [cpu_shares |-> 512, memory |-> "536870912"],
     M  |-> [cpu_shares |-> 1024, memory |-> "1073741824"],
     L  |-> [cpu_shares |-> 2048, memory |-> "2147483648"],
     XL |-> [cpu_shares |-> 4096, memory |-> "4294967286"]]

\* docker_client.inspect_container(id)
Inspected(id, name, cpu, mem, running, exit_code, created) ==
    [Id |-> id, Name |-> <<"/">> \o name, Image |-> "tutum/hello-world",
     CpuShares |-> cpu, Memory |-> mem, Running |-> running,
     ExitCode |-> exit_code, Created |-> created]

EnginePool ==
    {Inspected(s_c1a1, s_local_web_1, 256, "268435456", TRUE, 0, 1),
     Inspected(s_c1b2, s_local_web_2, 256, "268435456", FALSE, 1, 3),
     Inspected(s_ab99, s_local_web_1_1, 512, "536870912", FALSE, 0, 2),
     Inspected(s_c1d4, s_local_db_1, 256, "536870912", TRUE, 0, 1)}

NameChars == Letters \cup Digits \cup {"_", "-"}

\* the position of the "-" that splits '^local\-([a-zA-Z0-9_\-]+)\-([0-9]+)$', 0 if no match
LocalNameSplit(s) ==
    LET ok(i) == /\ s[i] = "-"
                 /\ StartsWith(s, <<"l", "o", "c", "a", "l", "-">>)
                 /\ i >= 8
                 /\ i < Len(s)
                 /\ \A j \in 7..(i - 1) : s[j] \in NameChars
                 /\ \A j \in (i + 1)..Len(s) : s[j] \in Digits
    IN IF \E i \in 1..Len(s) : ok(i)
       THEN CHOOSE i \in 1..Len(s) : ok(i)
       ELSE 0

None == <<"None">>

\* get_app_name_from_container_name returning the first group of the pattern
get_app_name_from_container_name_FirstGroup(container_local_name) ==
    IF LocalNameSplit(container_local_name) # 0
    THEN SubSeq(container_local_name, 7, LocalNameSplit(container_local_name) - 1)
    ELSE None

\* "-".join(container_local_name.split("-")[:-1]) when the name matches, None otherwise
get_app_name_from_container_name(container_local_name) ==
    IF LocalNameSplit(container_local_name) # 0
    THEN SubSeq(container_local_name, 1, LocalNameSplit(container_local_name) - 1)
    ELSE None

Sizes == {"XS", "S", "M", "L", "XL"}

get_size_from_cpu_shares(cpu_shares_value) ==
    IF \E size \in Sizes : CONTAINER_SIZE[size].cpu_shares = cpu_shares_value
    THEN CHOOSE size \in Sizes : CONTAINER_SIZE[size].cpu_shares = cpu_shares_value
    ELSE "None"

get_size_from_memory(memory_value) ==
    IF \E size \in Sizes : CONTAINER_SIZE[size].memory = memory_value
    THEN CHOOSE size \in Sizes : CONTAINER_SIZE[size].memory = memory_value
    ELSE "None"

CountStatus(container_list, status) ==
    Cardinality({i \in 1..Len(container_list) : container_list[i].status = status})

\* _calculate_local_app_status where one failed container marks a stopped application
_calculate_local_app_status_ErrorsWin(container_list) ==
    IF CountStatus(container_list, "Running") # 0
    THEN IF CountStatus(container_list, "Stopped") = 0
            /\ CountStatus(container_list, "Stopped with errors") = 0
         THEN "Running"
         ELSE "Partly running"
    ELSE IF CountStatus(container_list, "Stopped with errors") # 0
         THEN "Stopped with errors"
         ELSE "Stopped"

\* lines 379-395
_calculate_local_app_status(container_list) ==
    IF CountStatus(container_list, "Running") # 0
    THEN IF CountStatus(container_list, "Stopped") = 0
            /\ CountStatus(container_list, "Stopped with errors") = 0
         THEN "Running"
         ELSE "Partly running"
    ELSE IF CountStatus(container_list, "Stopped") = 0
            /\ CountStatus(container_list, "Stopped with errors") # 0
         THEN "Stopped with errors"
         ELSE "Stopped"

\* ContainerStatus looking at the exit code before the running flag
ContainerStatus_ExitCodeFirst(inspected_container) ==
    IF inspected_container.ExitCode # 0
    THEN "Stopped with errors"
    ELSE IF inspected_container.Running
         THEN "Running"
         ELSE "Stopped"

\* lines 317-319
ContainerStatus(inspected_container) ==
    IF inspected_container.Running
    THEN "Running"
    ELSE IF inspected_container.ExitCode # 0
         THEN "Stopped with errors"
         ELSE "Stopped"

\* lines 320-333
ContainerConfig(inspected_container, app_name, size_by_cpu) ==
    [app_name |-> app_name,
     name |-> Tail(inspected_container.Name),
     uuid |-> inspected_container.Id,
     status |-> ContainerStatus(inspected_container),
     image |-> inspected_container.Image,
     size |-> size_by_cpu,
     exit_code |-> inspected_container.ExitCode,
     deployed |-> inspected_container.Created]

\* IsTutumContainer without the comparison of the two sizes
IsTutumContainer_AnyTwoSizes(inspected_container) ==
    LET app_name == get_app_name_from_container_name(Tail(inspected_container.Name))
        size_by_cpu == get_size_from_cpu_shares(inspected_container.CpuShares)
        size_by_memory == get_size_from_memory(inspected_container.Memory)
    IN ~(app_name = None \/ size_by_cpu = "None" \/ size_by_memory = "None")

\* lines 308-310: it is not a tutum container
IsTutumContainer(inspected_container) ==
    LET app_name == get_app_name_from_container_name(Tail(inspected_container.Name))
        size_by_cpu == get_size_from_cpu_shares(inspected_container.CpuShares)
        size_by_memory == get_size_from_memory(inspected_container.Memory)
    IN ~(app_name = None \/ size_by_cpu = "None" \/ size_by_memory = "None"
         \/ size_by_cpu # size_by_memory)

\* one pass of the loop at lines 302-348 over a tutum container
AddContainer(current_apps, inspected_container, deployed_datetime) ==
    LET app_name == get_app_name_from_container_name(Tail(inspected_container.Name))
        size_by_cpu == get_size_from_cpu_shares(inspected_container.CpuShares)
        container_config == ContainerConfig(inspected_container, app_name, size_by_cpu)
        previous == IF app_name \in DOMAIN current_apps
                    THEN current_apps[app_name]
                    ELSE [image |-> inspected_container.Image,
                          container_size |-> size_by_cpu,
                          status |-> "", deployed |-> 0, containers |-> <<>>]
        app_config == [previous EXCEPT
                         !.containers = Append(@, container_config),
                         !.deployed = IF container_config.deployed < deployed_datetime
                                      THEN container_config.deployed
                                      ELSE deployed_datetime]
    IN [a \in DOMAIN current_apps \cup {app_name} |->
           IF a = app_name THEN app_config ELSE current_apps[a]]

RECURSIVE GroupContainers(_, _, _)
GroupContainers(containers, current_apps, deployed_datetime) ==
    IF containers = <<>>
    THEN current_apps
    ELSE GroupContainers(
             Tail(containers),
             IF IsTutumContainer(Head(containers))
             THEN AddContainer(current_apps, Head(containers), deployed_datetime)
             ELSE current_apps,
             deployed_datetime)

get_current_apps_and_its_containers ==
    LET current_apps == GroupContainers(engine, [a \in {} |-> NoObj], now)
    IN [a \in DOMAIN current_apps |->
           [current_apps[a] EXCEPT
              !.status = _calculate_local_app_status(current_apps[a].containers)]]

----------------------------------------------------------------------------
(* Local resolver. *)

\* (is_app, object) as returned, or the exception raised
LReturn(is_app, tag, obj) == [how |-> "return", tag |-> tag, obj |-> obj, is_app |-> is_app]
LRaise(tag) == [how |-> "raise", tag |-> tag, obj |-> NoObj, is_app |-> "None"]

\* lines 110-112
identified_apps(current, ident) == {app \in DOMAIN current : app = ident}

\* identified_containers matching the id by equality instead of by prefix
identified_containers_WholeIdOnly(current, ident) ==
    UNION {{<<app, i>> : i \in {j \in 1..Len(current[app].containers) :
                                  \/ current[app].containers[j].uuid = ident
                                  \/ current[app].containers[j].name = ident}} :
           app \in DOMAIN current}

\* lines 114-116, each element an (application, position) pair
identified_containers(current, ident) ==
    UNION {{<<app, i>> : i \in {j \in 1..Len(current[app].containers) :
                                  \/ StartsWith(current[app].containers[j].uuid, ident)
                                  \/ current[app].containers[j].name = ident}} :
           app \in DOMAIN current}

\* LocalVerdict without the test that the two counts are equal
LocalVerdict_NoStraddle(current, apps, containers) ==
    IF Cardinality(apps) = 0 /\ Cardinality(containers) = 0
    THEN LRaise("ObjectNotFound")
    ELSE IF \/ Cardinality(containers) > 1
            \/ Cardinality(apps) > 1
         THEN LRaise("NonUniqueIdentifier")
         ELSE IF Cardinality(apps) = 1
              THEN LET app == CHOOSE a \in apps : TRUE
                   IN LReturn("True", "obj", [app |-> app, app_config |-> current[app]])
              ELSE LET ac == CHOOSE c \in containers : TRUE
                   IN LReturn("False", "obj", current[ac[1]].containers[ac[2]])

\* LocalVerdict reporting ObjectNotFound as soon as no application matches
LocalVerdict_NotFoundWithoutApp(current, apps, containers) ==
    IF Cardinality(apps) = 0
    THEN LRaise("ObjectNotFound")
    ELSE IF \/ Cardinality(containers) > 1
            \/ Cardinality(apps) > 1
            \/ Cardinality(apps) = Cardinality(containers)
         THEN LRaise("NonUniqueIdentifier")
         ELSE LET app == CHOOSE a \in apps : TRUE
              IN LReturn("True", "obj", [app |-> app, app_config |-> current[app]])

\* lines 118-128
LocalVerdict(current, apps, containers) ==
    IF Cardinality(apps) = 0 /\ Cardinality(containers) = 0
    THEN LRaise("ObjectNotFound")
    ELSE IF \/ Cardinality(containers) > 1
            \/ Cardinality(apps) > 1
            \/ Cardinality(apps) = Cardinality(containers)
         THEN LRaise("NonUniqueIdentifier")
         ELSE IF Cardinality(apps) = 1
              THEN LET app == CHOOSE a \in apps : TRUE
                   IN LReturn("True", "obj", [app |-> app, app_config |-> current[app]])
              ELSE LET ac == CHOOSE c \in containers : TRUE
                   IN LReturn("False", "obj", current[ac[1]].containers[ac[2]])

\* lines 129-132
HandleLocalError(r, raise_exceptions) ==
    IF r.how = "raise" /\ r.tag \in ResolutionErrors /\ ~raise_exceptions
    THEN [r EXCEPT !.how = "return"]
    ELSE r

fetch_local_app_container(ident, raise_exceptions, docker_down) ==
    IF docker_down
    THEN LRaise("DockerNotFound")
    ELSE HandleLocalError(
             LocalVerdict(get_current_apps_and_its_containers,
                          identified_apps(get_current_apps_and_its_containers, ident),
                          identified_containers(get_current_apps_and_its_containers, ident)),
             raise_exceptions)

----------------------------------------------------------------------------
(* The reconciler: launch_queries_in_parallel. *)

MReturn(remote, is_app, obj) ==
    [how |-> "return", tag |-> "obj", obj |-> obj, remote |-> remote, is_app |-> is_app]
MRaise(tag) ==
    [how |-> "raise", tag |-> tag, obj |-> NoObj, remote |-> "None", is_app |-> "None"]

\* isinstance(result, Exception) of a value a non-strict resolver returned
IsException(r) == r.tag \in ResolutionErrors

\* MergeResults with the container branch returning the application's tags
MergeResults_ContainerTaggedApp(app, container, local_result) ==
    IF /\ app.tag = "ObjectNotFound"
       /\ container.tag = "ObjectNotFound"
       /\ local_result.tag = "ObjectNotFound"
    THEN MRaise("ObjectNotFound")
    ELSE IF \/ app.tag = "NonUniqueIdentifier"
            \/ container.tag = "NonUniqueIdentifier"
            \/ local_result.tag = "NonUniqueIdentifier"
            \/ Cardinality({i \in 1..3 :
                   ~IsException(<<app, container, local_result>>[i])}) > 1
         THEN MRaise("NonUniqueIdentifier")
         ELSE IF app.tag # "ObjectNotFound"
              THEN MReturn("True", "True", app.obj)
              ELSE IF container.tag # "ObjectNotFound"
                   THEN MReturn("True", "True", container.obj)
                   ELSE MReturn("False", local_result.is_app, local_result.obj)

\* MergeResults without the count of resolved lookups
MergeResults_NoCount(app, container, local_result) ==
    IF /\ app.tag = "ObjectNotFound"
       /\ container.tag = "ObjectNotFound"
       /\ local_result.tag = "ObjectNotFound"
    THEN MRaise("ObjectNotFound")
    ELSE IF \/ app.tag = "NonUniqueIdentifier"
            \/ container.tag = "NonUniqueIdentifier"
            \/ local_result.tag = "NonUniqueIdentifier"
         THEN MRaise("NonUniqueIdentifier")
         ELSE IF app.tag # "ObjectNotFound"
              THEN MReturn("True", "True", app.obj)
              ELSE IF container.tag # "ObjectNotFound"
                   THEN MReturn("True", "False", container.obj)
                   ELSE MReturn("False", local_result.is_app, local_result.obj)

\* MergeResults with the first test reading the two remote results only
MergeResults_RemoteNotFound(app, container, local_result) ==
    IF /\ app.tag = "ObjectNotFound"
       /\ container.tag = "ObjectNotFound"
    THEN MRaise("ObjectNotFound")
    ELSE IF \/ app.tag = "NonUniqueIdentifier"
            \/ container.tag = "NonUniqueIdentifier"
            \/ local_result.tag = "NonUniqueIdentifier"
            \/ Cardinality({i \in 1..3 :
                   ~IsException(<<app, container, local_result>>[i])}) > 1
         THEN MRaise("NonUniqueIdentifier")
         ELSE IF app.tag # "ObjectNotFound"
              THEN MReturn("True", "True", app.obj)
              ELSE IF container.tag # "ObjectNotFound"
                   THEN MReturn("True", "False", container.obj)
                   ELSE MReturn("False", local_result.is_app, local_result.obj)

\* lines 218-237 on app, container and (is_app, local_result)
MergeResults(app, container, local_result) ==
    IF /\ app.tag = "ObjectNotFound"
       /\ container.tag = "ObjectNotFound"
       /\ local_result.tag = "ObjectNotFound"
    THEN MRaise("ObjectNotFound")
    ELSE IF \/ app.tag = "NonUniqueIdentifier"
            \/ container.tag = "NonUniqueIdentifier"
            \/ local_result.tag = "NonUniqueIdentifier"
            \/ Cardinality({i \in 1..3 :
                   ~IsException(<<app, container, local_result>>[i])}) > 1
         THEN MRaise("NonUniqueIdentifier")
         ELSE IF app.tag # "ObjectNotFound"
              THEN MReturn("True", "True", app.obj)
              ELSE IF container.tag # "ObjectNotFound"
                   THEN MReturn("True", "False", container.obj)
                   ELSE IF local_result.tag # "ObjectNotFound"
                        THEN MReturn("False", local_result.is_app, local_result.obj)
                        ELSE MReturn("None", "None", NoObj)

----------------------------------------------------------------------------
(* fetch_app: one remote application or one local application. *)

\* (remote, object) as returned, or the exception raised
FReturn(remote, obj) == [how |-> "return", tag |-> "obj", obj |-> obj, remote |-> remote]
FRaise(tag) == [how |-> "raise", tag |-> tag, obj |-> NoObj, remote |-> "None"]

\* ReconcileApp counting a local container as a second resolution
ReconcileApp_CountsContainers(remote, local) ==
    IF \/ remote.tag = "ObjectNotFound" /\ local.tag = "ObjectNotFound"
       \/ remote.tag = "ObjectNotFound" /\ ~IsException(local) /\ local.is_app # "True"
    THEN FRaise("ObjectNotFound")
    ELSE IF \/ remote.tag = "NonUniqueIdentifier"
            \/ local.tag = "NonUniqueIdentifier"
            \/ Cardinality({i \in 1..2 : ~IsException(<<remote, local>>[i])}) > 1
         THEN FRaise("NonUniqueIdentifier")
         ELSE IF remote.tag # "ObjectNotFound"
              THEN FReturn("True", remote.obj)
              ELSE FReturn("False", local.obj)

\* ReconcileApp without the test that sets local containers aside
ReconcileApp_ReturnsContainers(remote, local) ==
    IF remote.tag = "ObjectNotFound" /\ local.tag = "ObjectNotFound"
    THEN FRaise("ObjectNotFound")
    ELSE IF \/ remote.tag = "NonUniqueIdentifier"
            \/ local.tag = "NonUniqueIdentifier"
            \/ /\ Cardinality({i \in 1..2 : ~IsException(<<remote, local>>[i])}) > 1
               /\ local.is_app = "True"
         THEN FRaise("NonUniqueIdentifier")
         ELSE IF remote.tag # "ObjectNotFound"
              THEN FReturn("True", remote.obj)
              ELSE FReturn("False", local.obj)

\* lines 139-152; is_app is None when the local lookup returned an exception
ReconcileApp(remote, local) ==
    IF \/ remote.tag = "ObjectNotFound" /\ local.tag = "ObjectNotFound"
       \/ remote.tag = "ObjectNotFound" /\ ~IsException(local) /\ local.is_app # "True"
    THEN FRaise("ObjectNotFound")
    ELSE IF \/ remote.tag = "NonUniqueIdentifier"
            \/ local.tag = "NonUniqueIdentifier"
            \/ /\ Cardinality({i \in 1..2 : ~IsException(<<remote, local>>[i])}) > 1
               /\ local.is_app = "True"
         THEN FRaise("NonUniqueIdentifier")
         ELSE IF remote.tag # "ObjectNotFound"
              THEN FReturn("True", remote.obj)
              ELSE FReturn("False", local.obj)

\* lines 135-152; an exception neither lookup handles leaves fetch_app as it is
fetch_app(ident, net, docker_down) ==
    LET remote == fetch_remote_app(ident, FALSE, net)
        local == fetch_local_app_container(ident, FALSE, docker_down)
    IN IF remote.how = "raise"
       THEN FRaise(remote.tag)
       ELSE IF local.how = "raise"
            THEN FRaise(local.tag)
            ELSE ReconcileApp(remote, local)

NoOut == [how |-> "none", tag |-> "none", obj |-> NoObj, calls |-> <<>>]
NoTask == [st |-> "none", out |-> NoOut]
NoLast == [raise_exceptions |-> FALSE, net |-> NetUp, docker_down |-> FALSE]

\* line 503: already_deployed={} as the function definition evaluates it, once
NoLinks == [name \in {} |-> <<>>]

\* no command is being run
NoCli == [cmd |-> "none", identifiers |-> 0, done |-> 0, has_exception |-> FALSE,
          events |-> <<>>, exit_code |-> -1, publish |-> <<>>]

\* subsets of at most n elements
AtMost(S, n) == {T \in SUBSET S : Cardinality(T) <= n}

\* sequences without repetition of at most n elements of S
RECURSIVE Listings(_, _)
Listings(S, n) ==
    IF n = 0
    THEN {<<>>}
    ELSE {<<>>} \cup UNION {{<<x>> \o l : l \in Listings(S \ {x}, n - 1)} : x \in S}

Init ==
    /\ remoteApps \in AtMost(AppPool, MaxRemote)
    /\ remoteContainers \in AtMost(ContainerPool, MaxRemote)
    /\ engine \in Listings(EnginePool, MaxLocal)
    /\ now = 2
    /\ call = "none"
    /\ identifier = <<>>
    /\ pc = "idle"
    /\ appsTask = NoTask
    /\ containersTask = NoTask
    /\ localTask = NoTask
    /\ result = NoOut
    /\ last = NoLast
    /\ already_deployed = NoLinks
    /\ cli = NoCli

\* Launch with the local lookup started together with the two remote lookups
Launch_LocalDispatched ==
    /\ call = "none"
    /\ \E ident \in Identifiers : identifier' = ident
    /\ call' = "launch_queries_in_parallel"
    /\ pc' = "join"
    /\ appsTask' = [st |-> "queued", out |-> NoOut]
    /\ containersTask' = [st |-> "queued", out |-> NoOut]
    /\ localTask' = [st |-> "running", out |-> NoOut]
    /\ result' = NoOut
    /\ last' = NoLast
    /\ UNCHANGED <<world, process>>

\* lines 208-211: the pool of two workers is given both remote lookups
Launch ==
    /\ call = "none"
    /\ \E ident \in Identifiers : identifier' = ident
    /\ call' = "launch_queries_in_parallel"
    /\ pc' = "join"
    /\ appsTask' = [st |-> "queued", out |-> NoOut]
    /\ containersTask' = [st |-> "queued", out |-> NoOut]
    /\ localTask' = NoTask
    /\ result' = NoOut
    /\ last' = NoLast
    /\ UNCHANGED <<world, process>>

\* a pool worker takes fetch_remote_app (identifier, False)
AppsWorkerStart ==
    /\ appsTask.st = "queued"
    /\ appsTask' = [appsTask EXCEPT !.st = "running"]
    /\ UNCHANGED <<world, process, call, identifier, pc, containersTask, localTask, result, last>>

AppsWorkerFinish ==
    /\ appsTask.st = "running"
    /\ \E net \in Nets :
          appsTask' = [st |-> "done", out |-> fetch_remote_app(identifier, FALSE, net)]
    /\ UNCHANGED <<world, process, call, identifier, pc, containersTask, localTask, result, last>>

\* a pool worker takes fetch_remote_container (identifier, False)
ContainersWorkerStart ==
    /\ containersTask.st = "queued"
    /\ containersTask' = [containersTask EXCEPT !.st = "running"]
    /\ UNCHANGED <<world, process, call, identifier, pc, appsTask, localTask, result, last>>

ContainersWorkerFinish ==
    /\ containersTask.st = "running"
    /\ \E net \in Nets :
          containersTask' =
              [st |-> "done", out |-> fetch_remote_container(identifier, FALSE, net)]
    /\ UNCHANGED <<world, process, call, identifier, pc, appsTask, localTask, result, last>>

\* Join returning as soon as the first worker is done
Join_FirstWorker ==
    /\ pc = "join"
    /\ appsTask.st = "done"
    /\ pc' = "get"
    /\ UNCHANGED <<world, process, call, identifier, appsTask, containersTask, localTask, result, last>>

\* line 212: pool.join() returns once both workers are done
Join ==
    /\ pc = "join"
    /\ appsTask.st = "done"
    /\ containersTask.st = "done"
    /\ pc' = "get"
    /\ UNCHANGED <<world, process, call, identifier, appsTask, containersTask, localTask, result, last>>

\* lines 214-216: get() re-raises what a worker raised; otherwise the local lookup is called
GetResults ==
    /\ pc = "get"
    /\ IF appsTask.out.how = "raise"
       THEN /\ result' = MRaise(appsTask.out.tag)
            /\ pc' = "done"
            /\ localTask' = localTask
       ELSE IF containersTask.out.how = "raise"
            THEN /\ result' = MRaise(containersTask.out.tag)
                 /\ pc' = "done"
                 /\ localTask' = localTask
            ELSE /\ result' = result
                 /\ pc' = "local"
                 /\ localTask' = [st |-> "running", out |-> NoOut]
    /\ UNCHANGED <<world, process, call, identifier, appsTask, containersTask, last>>

\* line 216: fetch_local_app_container(identifier, False) returns or raises
LocalFinish ==
    /\ pc = "local"
    /\ \E docker_down \in BOOLEAN :
          LET out == fetch_local_app_container(identifier, FALSE, docker_down)
          IN /\ localTask' = [st |-> "done", out |-> out]
             /\ IF out.how = "raise"
                THEN /\ result' = MRaise(out.tag)
                     /\ pc' = "done"
                ELSE /\ result' = result
                     /\ pc' = "merge"
    /\ UNCHANGED <<world, process, call, identifier, appsTask, containersTask, last>>

\* lines 218-237
Merge ==
    /\ pc = "merge"
    /\ result' = MergeResults(appsTask.out, containersTask.out, localTask.out)
    /\ pc' = "done"
    /\ UNCHANGED <<world, process, call, identifier, appsTask, containersTask, localTask, last>>

\* the caller has the outcome; the next call may be made
Finish ==
    /\ pc = "done"
    /\ pc' = "idle"
    /\ call' = "none"
    /\ identifier' = <<>>
    /\ appsTask' = NoTask
    /\ containersTask' = NoTask
    /\ localTask' = NoTask
    /\ result' = NoOut
    /\ last' = NoLast
    /\ UNCHANGED <<world, process>>

\* a direct call of one resolver, strict or not
CallRemoteApp ==
    /\ call = "none"
    /\ \E ident \in Identifiers, raise_exceptions \in BOOLEAN, net \in Nets :
          /\ identifier' = ident
          /\ call' = "fetch_remote_app"
          /\ last' = [raise_exceptions |-> raise_exceptions, net |-> net,
                      docker_down |-> FALSE]
          /\ result' = fetch_remote_app(ident, raise_exceptions, net)
    /\ pc' = "done"
    /\ UNCHANGED <<world, process, appsTask, containersTask, localTask>>

CallRemoteContainer ==
    /\ call = "none"
    /\ \E ident \in Identifiers, raise_exceptions \in BOOLEAN, net \in Nets :
          /\ identifier' = ident
          /\ call' = "fetch_remote_container"
          /\ last' = [raise_exceptions |-> raise_exceptions, net |-> net,
                      docker_down |-> FALSE]
          /\ result' = fetch_remote_container(ident, raise_exceptions, net)
    /\ pc' = "done"
    /\ UNCHANGED <<world, process, appsTask, containersTask, localTask>>

CallLocal ==
    /\ call = "none"
    /\ \E ident \in Identifiers, raise_exceptions \in BOOLEAN, docker_down \in BOOLEAN :
          /\ identifier' = ident
          /\ call' = "fetch_local_app_container"
          /\ last' = [raise_exceptions |-> raise_exceptions, net |-> NetUp,
                      docker_down |-> docker_down]
          /\ result' = fetch_local_app_container(ident, raise_exceptions, docker_down)
    /\ pc' = "done"
    /\ UNCHANGED <<world, process, appsTask, containersTask, localTask>>

CallFetchApp ==
    /\ call = "none"
    /\ \E ident \in Identifiers, net \in Nets, docker_down \in BOOLEAN :
          /\ identifier' = ident
          /\ call' = "fetch_app"
          /\ last' = [raise_exceptions |-> TRUE, net |-> net, docker_down |-> docker_down]
          /\ result' = fetch_app(ident, net, docker_down)
    /\ pc' = "done"
    /\ UNCHANGED <<world, process, appsTask, containersTask, localTask>>

Next ==
    \/ Launch
    \/ AppsWorkerStart
    \/ AppsWorkerFinish
    \/ ContainersWorkerStart
    \/ ContainersWorkerFinish
    \/ Join
    \/ GetResults
    \/ LocalFinish
    \/ Merge
    \/ Finish
    \/ CallRemoteApp
    \/ CallRemoteContainer
    \/ CallLocal
    \/ CallFetchApp

Spec == Init /\ [][Next]_vars

----------------------------------------------------------------------------
(* The pure functions, called on their own. *)

\* value returned by a pure function, with the list it was given
PReturn(value, container_list) ==
    [how |-> "return", tag |-> "value",
     obj |-> [value |-> value, container_list |-> container_list]]

\* characters put in the place of one character of a UUID4
SubstChars == {"g", "-", "4", "8", "A", "f", "0", "Z"}

\* the strings is_uuid4 is applied to: UUID4s, their prefixes, UUID4s with one
\* character replaced, with characters after them or before them, and names
Uuid4Inputs ==
    Identifiers \cup
    UNION {{SubSeq(u, 1, n) : n \in 0..36}
           \cup {[u EXCEPT ![i] = c] : i \in 1..36, c \in SubstChars}
           \cup {u \o <<"x">>, u \o Dash \o s_web, <<"x">> \o u} :
           u \in {UUID_A, UUID_D}}

ContainerStatuses == {"Running", "Stopped", "Stopped with errors"}

\* the lists of at most n containers, of which only the status is read
RECURSIVE StatusLists(_)
StatusLists(n) ==
    IF n = 0
    THEN {<<>>}
    ELSE StatusLists(n - 1) \cup
         {Append(l, [status |-> st]) : l \in StatusLists(n - 1), st \in ContainerStatuses}

InitPure ==
    /\ remoteApps = {}
    /\ remoteContainers = {}
    /\ engine = <<>>
    /\ now = 2
    /\ call = "none"
    /\ identifier = <<>>
    /\ pc = "idle"
    /\ appsTask = NoTask
    /\ containersTask = NoTask
    /\ localTask = NoTask
    /\ result = NoOut
    /\ last = NoLast
    /\ already_deployed = NoLinks
    /\ cli = NoCli

CallIsUuid4 ==
    /\ call = "none"
    /\ \E s \in Uuid4Inputs :
          /\ identifier' = s
          /\ result' = PReturn(IF is_uuid4(s) THEN "True" ELSE "False", <<>>)
    /\ call' = "is_uuid4"
    /\ pc' = "done"
    /\ UNCHANGED <<world, process, appsTask, containersTask, localTask, last>>

CallCalculateStatus ==
    /\ call = "none"
    /\ \E container_list \in StatusLists(MaxMembers) :
          result' = PReturn(_calculate_local_app_status(container_list), container_list)
    /\ call' = "_calculate_local_app_status"
    /\ pc' = "done"
    /\ UNCHANGED <<world, process, identifier, appsTask, containersTask, localTask, last>>

NextPure ==
    \/ CallIsUuid4
    \/ CallCalculateStatus
    \/ Finish

SpecPure == InitPure /\ [][NextPure]_vars

----------------------------------------------------------------------------
(* The inventory builder, called on its own. *)

s_local_web_3 == s_local_web \o <<"-", "3">>
s_local_db_2 == <<"l", "o", "c", "a", "l", "-", "d", "b", "-", "2">>
s_local_db_3 == <<"l", "o", "c", "a", "l", "-", "d", "b", "-", "3">>
s_local_db_4 == <<"l", "o", "c", "a", "l", "-", "d", "b", "-", "4">>
s_web_4 == s_web \o <<"-", "4">>
s_e5f6 == <<"e", "5", "f", "6">>
s_e5a7 == <<"e", "5", "a", "7">>
s_f8b9 == <<"f", "8", "b", "9">>
s_f8c0 == <<"f", "8", "c", "0">>

\* containers of two applications, and containers that are not tutum containers:
\* sizes of two buckets, a CPU share and a memory outside the table, a foreign name
InventoryPool ==
    {Inspected(s_c1a1, s_local_web_1, 256, "268435456", TRUE, 0, 1),
     Inspected(s_c1b2, s_local_web_2, 256, "268435456", FALSE, 1, 3),
     Inspected(s_ab99, s_local_web_3, 256, "268435456", TRUE, 137, 4),
     Inspected(s_c1d4, s_local_db_1, 512, "536870912", FALSE, 0, 2),
     Inspected(s_e5f6, s_local_db_2, 256, "536870912", TRUE, 0, 1),
     Inspected(s_e5a7, s_local_db_3, 300, "268435456", TRUE, 0, 1),
     Inspected(s_f8b9, s_local_db_4, 256, "0", FALSE, 0, 1),
     Inspected(s_f8c0, s_web_4, 256, "268435456", TRUE, 0, 1)}

\* datetime.datetime.utcnow() at line 300, before or after the latest creation
Nows == {2, 5}

\* the inventory as returned, or the exception raised
IReturn(current_apps) ==
    [how |-> "return", tag |-> "apps", obj |-> [current_apps |-> current_apps]]
IRaise(tag) == [how |-> "raise", tag |-> tag, obj |-> NoObj]

InitInventory ==
    /\ remoteApps = {}
    /\ remoteContainers = {}
    /\ engine \in Listings(InventoryPool, MaxListed)
    /\ now \in Nows
    /\ call = "none"
    /\ identifier = <<>>
    /\ pc = "idle"
    /\ appsTask = NoTask
    /\ containersTask = NoTask
    /\ localTask = NoTask
    /\ result = NoOut
    /\ last = NoLast
    /\ already_deployed = NoLinks
    /\ cli = NoCli

\* the calls one build makes on the engine: version() at line 243, containers()
\* at line 298, and inspect_container() at line 303 for each listed container in
\* turn, up to the one whose inspection fails
EngineCalls(docker_down, inspect_fails) ==
    IF docker_down
    THEN <<[op |-> "version", id |-> <<>>]>>
    ELSE <<[op |-> "version", id |-> <<>>], [op |-> "containers", id |-> <<>>]>>
         \o [i \in 1..(IF inspect_fails = 0 THEN Len(engine) ELSE inspect_fails) |->
                [op |-> "inspect_container", id |-> engine[i].Id]]

\* a build that leaves out the container whose inspection failed
BuildInventory_SkipsFailedInspection(docker_down, inspect_fails) ==
    IF docker_down
    THEN IRaise("DockerNotFound")
    ELSE IF inspect_fails # 0
         THEN IReturn(GroupContainers(SubSeq(engine, 1, inspect_fails - 1),
                                      [a \in {} |-> NoObj], now))
         ELSE IReturn(get_current_apps_and_its_containers)

\* lines 296-353: get_docker_client raises DockerNotFound when the engine is down
\* (lines 240-246); the exception of inspect_container at line 303 is caught
\* nowhere in the function
BuildInventory(docker_down, inspect_fails) ==
    IF docker_down
    THEN IRaise("DockerNotFound")
    ELSE IF inspect_fails # 0
         THEN IRaise("APIError")
         ELSE IReturn(get_current_apps_and_its_containers)

\* a build that removes from the engine the first container it inspected
EngineAfterBuild_RemovesInspected ==
    IF engine = <<>> THEN engine ELSE Tail(engine)

\* the engine after a build: version(), containers() and inspect_container()
\* are the only calls made on it (lines 243, 298, 303)
EngineAfterBuild == engine

\* a call of get_current_apps_and_its_containers; inspect_fails is the position
\* of the listed container whose inspection fails, 0 when none does
CallInventory ==
    /\ call = "none"
    /\ \E docker_down \in BOOLEAN, inspect_fails \in 0..Len(engine) :
          /\ last' = [raise_exceptions |-> TRUE, net |-> NetUp, docker_down |-> docker_down,
                      inspect_fails |-> inspect_fails,
                      calls |-> EngineCalls(docker_down, inspect_fails),
                      builds |-> 1, listing |-> engine, previous |-> NoOut]
          /\ result' = BuildInventory(docker_down, inspect_fails)
    /\ engine' = EngineAfterBuild
    /\ call' = "get_current_apps_and_its_containers"
    /\ pc' = "done"
    /\ UNCHANGED <<remoteApps, remoteContainers, now, process, identifier,
                   appsTask, containersTask, localTask>>

\* the caller, holding the inventory of one build, builds it again
RepeatInventory ==
    /\ call = "get_current_apps_and_its_containers"
    /\ pc = "done"
    /\ result.how = "return"
    /\ last.builds = 1
    /\ \E docker_down \in BOOLEAN, inspect_fails \in 0..Len(engine) :
          /\ last' = [last EXCEPT
                        !.docker_down = docker_down,
                        !.inspect_fails = inspect_fails,
                        !.calls = EngineCalls(docker_down, inspect_fails),
                        !.builds = 2,
                        !.previous = result]
          /\ result' = BuildInventory(docker_down, inspect_fails)
    /\ engine' = EngineAfterBuild
    /\ UNCHANGED <<remoteApps, remoteContainers, now, process, call, identifier, pc,
                   appsTask, containersTask, localTask>>

NextInventory ==
    \/ CallInventory
    \/ RepeatInventory
    \/ Finish

SpecInventory == InitInventory /\ [][NextInventory]_vars

----------------------------------------------------------------------------
(* The local resolver called again after the engine has changed. *)

\* exit codes of a container that is stopped
StopCodes == {0, 1}

InitEngine ==
    /\ remoteApps = {}
    /\ remoteContainers = {}
    /\ engine \in Listings(EnginePool, MaxLocal)
    /\ now = 2
    /\ call = "none"
    /\ identifier = <<>>
    /\ pc = "idle"
    /\ appsTask = NoTask
    /\ containersTask = NoTask
    /\ localTask = NoTask
    /\ result = NoOut
    /\ last = NoLast
    /\ already_deployed = NoLinks
    /\ cli = NoCli

\* between two calls a container is created: containers(all=True) lists it first
ContainerCreated ==
    /\ pc = "idle"
    /\ Len(engine) < MaxLocal
    /\ \E c \in EnginePool :
          /\ \A i \in 1..Len(engine) : engine[i].Id # c.Id /\ engine[i].Name # c.Name
          /\ engine' = <<c>> \o engine
    /\ UNCHANGED <<remoteApps, remoteContainers, now, process, call, identifier, pc,
                   appsTask, containersTask, localTask, result, last>>

\* between two calls a running container stops
ContainerStopped ==
    /\ pc = "idle"
    /\ \E i \in 1..Len(engine), code \in StopCodes :
          /\ engine[i].Running
          /\ engine' = [engine EXCEPT ![i] = [@ EXCEPT !.Running = FALSE, !.ExitCode = code]]
    /\ UNCHANGED <<remoteApps, remoteContainers, now, process, call, identifier, pc,
                   appsTask, containersTask, localTask, result, last>>

\* between two calls a container is removed
ContainerRemoved ==
    /\ pc = "idle"
    /\ \E i \in 1..Len(engine) :
          engine' = SubSeq(engine, 1, i - 1) \o SubSeq(engine, i + 1, Len(engine))
    /\ UNCHANGED <<remoteApps, remoteContainers, now, process, call, identifier, pc,
                   appsTask, containersTask, localTask, result, last>>

\* the caller keeps the outcome of a call and will look the same identifier up again
Remember ==
    /\ call = "fetch_local_app_container"
    /\ pc = "done"
    /\ "previous" \notin DOMAIN last
    /\ last' = [raise_exceptions |-> last.raise_exceptions, net |-> last.net,
                docker_down |-> last.docker_down,
                previous |-> result]
    /\ pc' = "idle"
    /\ call' = "none"
    /\ result' = NoOut
    /\ UNCHANGED <<world, process, identifier, appsTask, containersTask, localTask>>

\* the second call answered from what the first call found
RepeatLocal_ReturnsCached ==
    /\ call = "none"
    /\ pc = "idle"
    /\ "previous" \in DOMAIN last
    /\ \E raise_exceptions \in BOOLEAN, docker_down \in BOOLEAN :
          /\ last' = [last EXCEPT !.raise_exceptions = raise_exceptions,
                                  !.docker_down = docker_down]
          /\ result' = IF last.previous.tag = "obj"
                       THEN last.previous
                       ELSE fetch_local_app_container(identifier, raise_exceptions, docker_down)
    /\ call' = "fetch_local_app_container"
    /\ pc' = "done"
    /\ UNCHANGED <<world, process, identifier, appsTask, containersTask, localTask>>

\* lines 103-132 called a second time with the same identifier: line 105 builds
\* the inventory from the engine as it is now
RepeatLocal ==
    /\ call = "none"
    /\ pc = "idle"
    /\ "previous" \in DOMAIN last
    /\ \E raise_exceptions \in BOOLEAN, docker_down \in BOOLEAN :
          /\ last' = [last EXCEPT !.raise_exceptions = raise_exceptions,
                                  !.docker_down = docker_down]
          /\ result' = fetch_local_app_container(identifier, raise_exceptions, docker_down)
    /\ call' = "fetch_local_app_container"
    /\ pc' = "done"
    /\ UNCHANGED <<world, process, identifier, appsTask, containersTask, localTask>>

NextEngine ==
    \/ CallLocal
    \/ Remember
    \/ ContainerCreated
    \/ ContainerStopped
    \/ ContainerRemoved
    \/ RepeatLocal
    \/ Finish

SpecEngine == InitEngine /\ [][NextEngine]_vars

----------------------------------------------------------------------------
(* create_containers_for_an_app, called several times in one process. *)

s_link == <<"-", "l", "i", "n", "k">>

\* the names given to the containers to create
CreateNames == {s_local_web_1, s_local_web_2, s_local_db_1}

\* the id the engine gives to the container it creates under a name
NewId(name) ==
    IF name = s_local_web_1 THEN s_c1a1
    ELSE IF name = s_local_web_2 THEN s_c1b2
    ELSE s_c1d4

\* line 522: already_deployed[container_names[i]] = container_names[i] + "-link"
WithLink(links, name) ==
    [n \in DOMAIN links \cup {name} |-> IF n = name THEN name \o s_link ELSE links[n]]

\* a dict the caller passes as already_deployed
GivenLinks == {NoLinks, WithLink(NoLinks, s_local_db_1)}

\* the call as returned, or the exception raised, with the links each started
\* container was given and the dict and the engine the call leaves behind
CReturn(how, tag, st) ==
    [how |-> how, tag |-> tag,
     obj |-> [deployed_ids |-> st.deployed_ids, starts |-> st.starts],
     links |-> st.links, listing |-> st.listing]

\* lines 511-523: create_container refuses a name the engine already has, and
\* the exception leaves the loop; start() is given the dict as it is then
RECURSIVE CreateLoop(_, _, _)
CreateLoop(container_names, i, st) ==
    IF i > Len(container_names)
    THEN CReturn("return", "ids", st)
    ELSE IF \E k \in 1..Len(st.listing) : Tail(st.listing[k].Name) = container_names[i]
         THEN CReturn("raise", "APIError", st)
         ELSE CreateLoop(
                  container_names, i + 1,
                  [deployed_ids |-> Append(st.deployed_ids, NewId(container_names[i])),
                   starts |-> Append(st.starts, [name |-> container_names[i],
                                                 links |-> st.links]),
                   links |-> WithLink(st.links, container_names[i]),
                   listing |-> <<Inspected(NewId(container_names[i]), container_names[i],
                                           CONTAINER_SIZE.XS.cpu_shares,
                                           CONTAINER_SIZE.XS.memory, TRUE, 0, now)>>
                               \o st.listing])

\* lines 502-524; links is the dict bound to already_deployed in this call
create_containers_for_an_app(container_names, links, docker_down, pull_fails) ==
    LET st == [deployed_ids |-> <<>>, starts |-> <<>>, links |-> links, listing |-> engine]
    IN IF docker_down
       THEN CReturn("raise", "DockerNotFound", st)
       ELSE IF pull_fails
            THEN CReturn("raise", "Exception", st)
            ELSE CreateLoop(container_names, 1, st)

InitCreate ==
    /\ remoteApps = {}
    /\ remoteContainers = {}
    /\ engine = <<>>
    /\ now = 2
    /\ call = "none"
    /\ identifier = <<>>
    /\ pc = "idle"
    /\ appsTask = NoTask
    /\ containersTask = NoTask
    /\ localTask = NoTask
    /\ result = NoOut
    /\ last = NoLast
    /\ already_deployed = NoLinks
    /\ cli = NoCli

\* a call that omits already_deployed: the parameter is bound to the dict made
\* when line 503 was evaluated, which the call before left as it is
CallCreateOmitting ==
    /\ call = "none"
    /\ \E container_names \in Listings(CreateNames, MaxCreated),
          docker_down \in BOOLEAN, pull_fails \in BOOLEAN :
          LET out == create_containers_for_an_app(container_names, already_deployed,
                                                  docker_down, pull_fails)
          IN /\ last' = [raise_exceptions |-> TRUE, net |-> NetUp,
                         docker_down |-> docker_down, pull_fails |-> pull_fails,
                         container_names |-> container_names, omitted |-> TRUE]
             /\ result' = out
             /\ already_deployed' = out.links
             /\ engine' = out.listing
    /\ call' = "create_containers_for_an_app"
    /\ pc' = "done"
    /\ UNCHANGED <<remoteApps, remoteContainers, now, cli, identifier,
                   appsTask, containersTask, localTask>>

\* a call that passes a dict of its own
CallCreateGiving ==
    /\ call = "none"
    /\ \E container_names \in Listings(CreateNames, MaxCreated), given \in GivenLinks,
          docker_down \in BOOLEAN, pull_fails \in BOOLEAN :
          LET out == create_containers_for_an_app(container_names, given,
                                                  docker_down, pull_fails)
          IN /\ last' = [raise_exceptions |-> TRUE, net |-> NetUp,
                         docker_down |-> docker_down, pull_fails |-> pull_fails,
                         container_names |-> container_names, omitted |-> FALSE]
             /\ result' = out
             /\ engine' = out.listing
    /\ call' = "create_containers_for_an_app"
    /\ pc' = "done"
    /\ UNCHANGED <<remoteApps, remoteContainers, now, process, identifier,
                   appsTask, containersTask, localTask>>

\* between two calls a container is removed from the engine
CreatedRemoved ==
    /\ pc = "idle"
    /\ \E i \in 1..Len(engine) :
          engine' = SubSeq(engine, 1, i - 1) \o SubSeq(engine, i + 1, Len(engine))
    /\ UNCHANGED <<remoteApps, remoteContainers, now, process, call, identifier, pc,
                   appsTask, containersTask, localTask, result, last>>

NextCreate ==
    \/ CallCreateOmitting
    \/ CallCreateGiving
    \/ CreatedRemoved
    \/ Finish

SpecCreate == InitCreate /\ [][NextCreate]_vars

----------------------------------------------------------------------------
(* The commands: loops over identifiers, exit codes. *)

\* commands.py lines 35-36
TUTUM_AUTH_ERROR_EXIT_CODE == 2
EXCEPTION_EXIT_CODE == 3

TagCommands == {"tag_add", "tag_list", "tag_rm", "tag_set"}
BatchCommands == {"service_start", "container_terminate", "node_rm", "stack_stop",
                  "service_inspect"}

\* the resolver a batch command calls and the method it calls on the object
KindOf ==
    [service_start |-> "Service", container_terminate |-> "Container",
     node_rm |-> "Node", stack_stop |-> "Stack", service_inspect |-> "Service"]
OpOf ==
    [service_start |-> "start", container_terminate |-> "delete",
     node_rm |-> "delete", stack_stop |-> "stop",
     service_inspect |-> "get_all_attributes"]

\* what a resolver of tutum.Utils answers: the object, one of the two resolution
\* errors (raised, or returned when raise_exceptions is False), or the API's
\* refusal of the credentials
LookupOutcomes == {"obj", "ObjectNotFound", "NonUniqueIdentifier", "TutumAuthError"}

\* what a method of an object answers: its result, or an exception
OpOutcomes == {"True", "False", "TutumApiError", "TutumAuthError"}

\* what utils.sync_action(obj, sync) does: it returns, or raises an exception
sync_action == {"ok", "TutumApiError"}

\* one thing a command did for its i-th identifier
Event(i, what, kind, outcome) ==
    [identifier |-> i, what |-> what, kind |-> kind, outcome |-> outcome]

AllKinds == "service, node or nodecluster"

\* the three lookups made whatever the earlier ones answered
LookupsInOrder_QueriesEveryKind(i, svc, nc, node) ==
    LET all == <<Event(i, "lookup", "Service", svc),
                 Event(i, "lookup", "NodeCluster", nc),
                 Event(i, "lookup", "Node", node)>>
    IN IF svc # "ObjectNotFound"
       THEN [events |-> all, kind |-> "Service", outcome |-> svc]
       ELSE IF nc # "ObjectNotFound"
            THEN [events |-> all, kind |-> "NodeCluster", outcome |-> nc]
            ELSE [events |-> all,
                  kind |-> IF node = "ObjectNotFound" THEN AllKinds ELSE "Node",
                  outcome |-> node]

\* lines 1266-1276, 1297-1310, 1341-1351, 1372-1382: Service, then NodeCluster
\* when Service is not found, then Node when NodeCluster is not found; when Node
\* is not found either, ObjectNotFound is raised with the three kinds in its text
LookupsInOrder(i, svc, nc, node) ==
    IF svc # "ObjectNotFound"
    THEN [events |-> <<Event(i, "lookup", "Service", svc)>>,
          kind |-> "Service", outcome |-> svc]
    ELSE IF nc # "ObjectNotFound"
         THEN [events |-> <<Event(i, "lookup", "Service", svc),
                            Event(i, "lookup", "NodeCluster", nc)>>,
               kind |-> "NodeCluster", outcome |-> nc]
         ELSE [events |-> <<Event(i, "lookup", "Service", svc),
                            Event(i, "lookup", "NodeCluster", nc),
                            Event(i, "lookup", "Node", node)>>,
               kind |-> IF node = "ObjectNotFound" THEN AllKinds ELSE "Node",
               outcome |-> node]

\* what one pass of a loop did, and whether it set has_exception
Pass(events, failed) == [events |-> events, failed |-> failed]

\* lines 1264-1284 (tag_add), 1339-1363 (tag_rm), 1370-1395 (tag_set): the
\* resolvers raise; tag_rm catches the failure of tag.delete inside the pass and
\* prints the uuid all the same
TagPass(cmd, i, svc, nc, node, tagop) ==
    LET r == LookupsInOrder(i, svc, nc, node)
    IN IF r.outcome # "obj"
       THEN Pass(r.events \o <<Event(i, "error", r.kind, r.outcome)>>, TRUE)
       ELSE IF tagop = "True"
            THEN Pass(r.events \o <<Event(i, "tag_op", r.kind, tagop),
                                    Event(i, "print", r.kind, "uuid")>>, FALSE)
            ELSE IF cmd = "tag_rm"
                 THEN Pass(r.events \o <<Event(i, "tag_op", r.kind, tagop),
                                         Event(i, "error", r.kind, tagop),
                                         Event(i, "print", r.kind, "uuid")>>, TRUE)
                 ELSE Pass(r.events \o <<Event(i, "tag_op", r.kind, tagop),
                                         Event(i, "error", r.kind, tagop)>>, TRUE)

\* lines 1295-1327 (tag_list): the resolvers are called with
\* raise_exceptions=False and only isinstance(obj, ObjectNotFound) is tested, so
\* a NonUniqueIdentifier that a resolver returned is given to tutum.Tag.fetch as
\* if it were the object; the row of a failed identifier bears 'None' as type
\* for ObjectNotFound and no type for any other exception
TagListPass(i, svc, nc, node, tagop) ==
    LET r == LookupsInOrder(i, svc, nc, node)
    IN IF r.outcome \in {"ObjectNotFound", "TutumAuthError"}
       THEN Pass(r.events \o <<Event(i, "error", r.kind, r.outcome),
                               Event(i, "row", IF r.outcome = "ObjectNotFound"
                                               THEN "None" ELSE "", "")>>, TRUE)
       ELSE LET answer == IF r.outcome = "NonUniqueIdentifier" THEN "Exception" ELSE tagop
            IN IF answer = "True"
               THEN Pass(r.events \o <<Event(i, "tag_op", r.kind, answer),
                                       Event(i, "row", r.kind, "tags")>>, FALSE)
               ELSE Pass(r.events \o <<Event(i, "tag_op", r.kind, answer),
                                       Event(i, "error", r.kind, answer),
                                       Event(i, "row", "", "")>>, TRUE)

\* lines 155-165, 460-469, 759-768, 1028-1037, 1635-1644: the lookup, the method,
\* sync_action, and the uuid printed when the method's result is true;
\* service_inspect calls no sync_action and prints what it read
BatchPass(cmd, i, lookup, op, sync) ==
    LET l == <<Event(i, "lookup", KindOf[cmd], lookup)>>
    IN IF lookup # "obj"
       THEN Pass(l \o <<Event(i, "error", KindOf[cmd], lookup)>>, TRUE)
       ELSE IF cmd = "service_inspect"
            THEN Pass(l \o <<Event(i, "op", OpOf[cmd], "True"),
                             Event(i, "print", KindOf[cmd], "attributes")>>, FALSE)
            ELSE IF op \notin {"True", "False"}
                 THEN Pass(l \o <<Event(i, "op", OpOf[cmd], op),
                                  Event(i, "error", KindOf[cmd], op)>>, TRUE)
                 ELSE IF sync # "ok"
                      THEN Pass(l \o <<Event(i, "op", OpOf[cmd], op),
                                       Event(i, "sync_action", KindOf[cmd], sync),
                                       Event(i, "error", KindOf[cmd], sync)>>, TRUE)
                      ELSE Pass(l \o <<Event(i, "op", OpOf[cmd], op),
                                       Event(i, "sync_action", KindOf[cmd], sync)>>
                                  \o IF op = "True"
                                     THEN <<Event(i, "print", KindOf[cmd], "uuid")>>
                                     ELSE <<>>,
                                FALSE)

p_80_tcp == <<"8", "0", "/", "t", "c", "p">>
p_53_udp == <<"5", "3", "/", "u", "d", "p">>
p_80_xyz == <<"8", "0", "/", "x", "y", "z">>
p_80 == <<"8", "0">>

\* port specs given on the command line
PortPool == {p_80_tcp, p_53_udp, p_80_xyz, p_80}

DigitValue(c) == CHOOSE n \in 0..9 : <<"0", "1", "2", "3", "4", "5", "6", "7", "8", "9">>[n + 1] = c

\* int() of a string of digits
RECURSIVE ToInt(_)
ToInt(digits) ==
    IF digits = <<>>
    THEN 0
    ELSE 10 * ToInt(SubSeq(digits, 1, Len(digits) - 1)) + DigitValue(digits[Len(digits)])

\* utils.py lines 164-172: '^[0-9]{1,5}/(tcp|udp)$' matched from the start of the
\* string; what it accepts is in lower case already
PortMatches(port) ==
    \E k \in 1..5 :
        /\ Len(port) = k + 4
        /\ \A j \in 1..k : port[j] \in Digits
        /\ port[k + 1] = "/"
        /\ SubSeq(port, k + 2, k + 4) \in {<<"t", "c", "p">>, <<"u", "d", "p">>}

Slash(port) == CHOOSE k \in 1..Len(port) : port[k] = "/" /\ \A j \in 1..(k - 1) : port[j] # "/"

_get_port_dict(port) ==
    IF PortMatches(port)
    THEN [how |-> "return",
          value |-> [protocol |-> SubSeq(port, Slash(port) + 1, Len(port)),
                     inner_port |-> ToInt(SubSeq(port, 1, Slash(port) - 1))]]
    ELSE [how |-> "raise", value |-> "BadParameter"]

\* utils.py lines 155-161: the exception of _get_port_dict leaves the loop and
\* the function, and the list built so far is lost with it
RECURSIVE parse_ports(_)
parse_ports(port_list) ==
    IF port_list = <<>>
    THEN [how |-> "return", value |-> <<>>]
    ELSE LET before == parse_ports(SubSeq(port_list, 1, Len(port_list) - 1))
             this == _get_port_dict(port_list[Len(port_list)])
         IN IF before.how = "raise"
            THEN before
            ELSE IF this.how = "raise"
                 THEN [how |-> "raise", value |-> <<>>]
                 ELSE [how |-> "return", value |-> Append(before.value, this.value)]

\* utils.parse_published_ports(publish): a list of port dicts, or BadParameter
\* for a port spec that is not <int>/(tcp|udp)
parse_published_ports(publish) == parse_ports(publish)

\* lines 367-453 (service_set): the lookup at line 369, then the ports parsed at
\* lines 386-388, then save() and sync_action at lines 439-440
ServiceSetPass(i, publish, lookup, op, sync) ==
    LET l == <<Event(i, "lookup", "Service", lookup)>>
    IN IF lookup # "obj"
       THEN Pass(l \o <<Event(i, "error", "Service", lookup)>>, TRUE)
       ELSE IF parse_published_ports(publish).how = "raise"
            THEN Pass(l \o <<Event(i, "parse_published_ports", "Service", "BadParameter"),
                             Event(i, "error", "Service", "BadParameter")>>, TRUE)
            ELSE LET pl == l \o <<Event(i, "parse_published_ports", "Service", "ok")>>
                 IN IF op \notin {"True", "False"}
                    THEN Pass(pl \o <<Event(i, "op", "save", op),
                                      Event(i, "error", "Service", op)>>, TRUE)
                    ELSE IF sync # "ok"
                         THEN Pass(pl \o <<Event(i, "op", "save", op),
                                           Event(i, "sync_action", "Service", sync),
                                           Event(i, "error", "Service", sync)>>, TRUE)
                         ELSE Pass(pl \o <<Event(i, "op", "save", op),
                                           Event(i, "sync_action", "Service", sync)>>
                                      \o IF op = "True"
                                         THEN <<Event(i, "print", "Service", "uuid")>>
                                         ELSE <<>>,
                                   FALSE)

\* a pass that, having failed, leaves the identifiers after it alone
AfterPass_StopsAtFailure(c, pass) ==
    [c EXCEPT !.done = IF pass.failed THEN c.identifiers ELSE @ + 1,
              !.has_exception = @ \/ pass.failed,
              !.events = @ \o pass.events]

\* the except clause that ends every pass: the next identifier is taken whether
\* or not this one failed
AfterPass(c, pass) ==
    [c EXCEPT !.done = @ + 1,
              !.has_exception = @ \/ pass.failed,
              !.events = @ \o pass.events]

\* how a session of container_exec ends (lines 560-577)
ShellOutcomes == {"WebSocketConnectionClosedException", "TutumAuthError",
                  "WebSocketException", "Exception"}

\* lines 560-577: the exit code of invoke_shell
ShellExitCode(shell) ==
    IF shell = "TutumAuthError" THEN TUTUM_AUTH_ERROR_EXIT_CODE
    ELSE IF shell = "WebSocketConnectionClosedException" THEN 0
    ELSE EXCEPTION_EXIT_CODE

InitCommands ==
    /\ remoteApps = {}
    /\ remoteContainers = {}
    /\ engine = <<>>
    /\ now = 2
    /\ call = "none"
    /\ identifier = <<>>
    /\ pc = "idle"
    /\ appsTask = NoTask
    /\ containersTask = NoTask
    /\ localTask = NoTask
    /\ result = NoOut
    /\ last = NoLast
    /\ already_deployed = NoLinks
    /\ cli = NoCli

Running(cmds) ==
    /\ cli.cmd \in cmds
    /\ cli.exit_code = -1
    /\ cli.done < cli.identifiers

notCli == <<world, already_deployed, call, identifier, pc, appsTask, containersTask,
            localTask, result, last>>

\* the command line names a command and its identifiers; --publish is an
\* option of service_set
StartCommand ==
    /\ cli = NoCli
    /\ \E cmd \in TagCommands \cup BatchCommands \cup {"service_set", "container_exec"},
          n \in 1..MaxIdentifiers, publish \in Listings(PortPool, MaxPorts) :
          /\ cmd = "container_exec" => n = 1
          /\ cmd # "service_set" => publish = <<>>
          /\ cli' = [NoCli EXCEPT !.cmd = cmd, !.identifiers = n, !.publish = publish]
    /\ UNCHANGED notCli

TagStep ==
    /\ Running({"tag_add", "tag_rm", "tag_set"})
    /\ \E svc \in LookupOutcomes, nc \in LookupOutcomes, node \in LookupOutcomes,
          tagop \in {"True", "TutumApiError", "TutumAuthError"} :
          cli' = AfterPass(cli, TagPass(cli.cmd, cli.done + 1, svc, nc, node, tagop))
    /\ UNCHANGED notCli

TagListStep ==
    /\ Running({"tag_list"})
    /\ \E svc \in LookupOutcomes, nc \in LookupOutcomes, node \in LookupOutcomes,
          tagop \in {"True", "TutumApiError", "TutumAuthError"} :
          cli' = AfterPass(cli, TagListPass(cli.done + 1, svc, nc, node, tagop))
    /\ UNCHANGED notCli

BatchStep ==
    /\ Running(BatchCommands)
    /\ \E lookup \in LookupOutcomes, op \in OpOutcomes, sync \in sync_action :
          cli' = AfterPass(cli, BatchPass(cli.cmd, cli.done + 1, lookup, op, sync))
    /\ UNCHANGED notCli

ServiceSetStep ==
    /\ Running({"service_set"})
    /\ \E lookup \in LookupOutcomes, op \in OpOutcomes, sync \in sync_action :
          cli' = AfterPass(cli, ServiceSetPass(cli.done + 1, cli.publish, lookup, op, sync))
    /\ UNCHANGED notCli

\* lines 579-605: the lookup fails and the command exits at line 583, or the
\* shell is run and the command exits at line 577
ContainerExec ==
    /\ Running({"container_exec"})
    /\ \E lookup \in LookupOutcomes, shell \in ShellOutcomes :
          LET l == <<Event(1, "lookup", "Container", lookup)>>
          IN IF lookup # "obj"
             THEN cli' = [cli EXCEPT !.done = 1, !.has_exception = TRUE,
                                     !.events = l \o <<Event(1, "error", "Container", lookup)>>,
                                     !.exit_code = EXCEPTION_EXIT_CODE]
             ELSE cli' = [cli EXCEPT !.done = 1,
                                     !.has_exception =
                                         shell # "WebSocketConnectionClosedException",
                                     !.events = l \o
                                         IF shell = "WebSocketConnectionClosedException"
                                         THEN <<Event(1, "op", "invoke_shell", shell)>>
                                         ELSE <<Event(1, "op", "invoke_shell", shell),
                                                Event(1, "error", "Container", shell)>>,
                                     !.exit_code = ShellExitCode(shell)]
    /\ UNCHANGED notCli

\* the lines after the loop: if has_exception: sys.exit(EXCEPTION_EXIT_CODE)
EndCommand ==
    /\ cli.cmd # "none"
    /\ cli.exit_code = -1
    /\ cli.done = cli.identifiers
    /\ cli' = [cli EXCEPT !.exit_code = IF cli.has_exception THEN EXCEPTION_EXIT_CODE ELSE 0]
    /\ UNCHANGED notCli

\* the process is over; another command line may be given
NextCommandLine ==
    /\ cli.exit_code # -1
    /\ cli' = NoCli
    /\ UNCHANGED notCli

NextCommands ==
    \/ StartCommand
    \/ TagStep
    \/ TagListStep
    \/ BatchStep
    \/ ServiceSetStep
    \/ ContainerExec
    \/ EndCommand
    \/ NextCommandLine

SpecCommands == InitCommands /\ [][NextCommands]_vars

----------------------------------------------------------------------------
(* Properties of launch_queries_in_parallel. *)

InLaunch == call = "launch_queries_in_parallel"

\* the three lookups returned and lines 218-237 have run on their values
Merged ==
    /\ InLaunch
    /\ pc = "done"
    /\ localTask.st = "done"
    /\ localTask.out.how = "return"

Lookups == <<appsTask.out, containersTask.out, localTask.out>>

NumResolved == Cardinality({i \in 1..3 : Lookups[i].tag = "obj"})
NumNonUnique == Cardinality({i \in 1..3 : Lookups[i].tag = "NonUniqueIdentifier"})
NumNotFound == Cardinality({i \in 1..3 : Lookups[i].tag = "ObjectNotFound"})

\* C1: when exactly one of the three lookups resolved and none returned NonUnique,
\* the call returns that object with its provenance: (True, True, obj) for the
\* remote application, (True, False, obj) for the remote container, and
\* (False, is_app, obj) for the local match with the local resolver's own is_app.
C1_OneResolvedIsReturned ==
    (Merged /\ NumResolved = 1 /\ NumNonUnique = 0) =>
        /\ appsTask.out.tag = "obj" =>
              result = MReturn("True", "True", appsTask.out.obj)
        /\ containersTask.out.tag = "obj" =>
              result = MReturn("True", "False", containersTask.out.obj)
        /\ localTask.out.tag = "obj" =>
              result = MReturn("False", localTask.out.is_app, localTask.out.obj)

\* a remote container alone resolved and is returned as (True, False, container)
C1_Witness ==
    /\ Merged
    /\ NumResolved = 1
    /\ NumNonUnique = 0
    /\ containersTask.out.tag = "obj"
    /\ result.how = "return"
    /\ result.remote = "True"
    /\ result.is_app = "False"

\* C2: NonUniqueIdentifier is raised whenever a lookup returned NonUnique or more
\* than one lookup resolved, and then no object is returned.
C2_AmbiguityRaisesNonUnique ==
    (Merged /\ (NumNonUnique > 0 \/ NumResolved > 1)) =>
        result = MRaise("NonUniqueIdentifier")

\* a remote application and a local application resolved the same identifier
C2_Witness ==
    /\ Merged
    /\ NumNonUnique = 0
    /\ appsTask.out.tag = "obj"
    /\ localTask.out.tag = "obj"
    /\ localTask.out.is_app = "True"
    /\ result = MRaise("NonUniqueIdentifier")

\* C3: ObjectNotFound is raised if and only if all three lookups returned NotFound.
C3_NotFoundIffAllNotFound ==
    (InLaunch /\ pc = "done") =>
        ((result.how = "raise" /\ result.tag = "ObjectNotFound")
            <=> (Merged /\ NumNotFound = 3))

\* all three lookups returned NotFound and the call raised ObjectNotFound
C3_Witness ==
    /\ Merged
    /\ NumNotFound = 3
    /\ result = MRaise("ObjectNotFound")

AllLookupsDone ==
    /\ appsTask.st = "done"
    /\ containersTask.st = "done"
    /\ localTask.st = "done"

\* C4: the merge is a fan-in barrier: it runs, an object is returned, and a
\* NotFound or NonUnique verdict is produced, only when all three lookups are done.
C4_MergeAfterAllLookups ==
    (InLaunch /\ (pc = "merge" \/ result.how = "return" \/ result.tag \in ResolutionErrors))
        => AllLookupsDone

\* an object has been returned by the merge
C4_Witness ==
    /\ InLaunch
    /\ result.how = "return"
    /\ result.tag = "obj"
    /\ AllLookupsDone

\* C5 as claimed: the local lookup is started before the two remote lookups are
\* joined, so that it has been started whenever pool.join() has returned.
C5_LocalStartedBeforeJoin ==
    (InLaunch /\ pc = "get") => localTask.st # "none"

\* C5 as the code has it: the two remote lookups run concurrently on the pool and
\* the local lookup is started only after both have been joined, so the local
\* lookup is never in progress while a remote lookup is.
C5_LocalStartedAfterJoin ==
    (InLaunch /\ localTask.st # "none") =>
        /\ appsTask.st = "done"
        /\ containersTask.st = "done"
        /\ pc # "join"

\* the local lookup is in progress
C5_Witness ==
    /\ InLaunch
    /\ localTask.st = "running"
    /\ appsTask.st = "done"
    /\ containersTask.st = "done"

----------------------------------------------------------------------------
(* Properties of the remote resolvers called directly. *)

RemoteResolvers == {"fetch_remote_app", "fetch_remote_container"}

RemoteCallDone == call \in RemoteResolvers /\ pc = "done"

\* the objects the called resolver searches
Searched == IF call = "fetch_remote_app" THEN remoteApps ELSE remoteContainers

\* a remote call the resolver issued failed at the transport level
TransportFailed ==
    \/ last.net = "first_call_fails"
    \/ last.net = "second_call_fails" /\ Len(result.calls) = 2

\* C6: a transport-level error of a remote call is propagated by the resolver and
\* never becomes ObjectNotFound, for every identifier, UUID4-shaped or not.
C6_TransportErrorPropagates ==
    (RemoteCallDone /\ TransportFailed) =>
        /\ result.how = "raise"
        /\ result.tag = "TransportError"

\* zero elements NotFound, exactly one Resolved with that element, more NonUnique
OutcomeOn(objs, r) ==
    /\ Cardinality(objs) = 0 => r.tag = "ObjectNotFound"
    /\ Cardinality(objs) = 1 => r.tag = "obj" /\ r.obj \in objs
    /\ Cardinality(objs) > 1 => r.tag = "NonUniqueIdentifier"

\* C7 as claimed: for an identifier that is not UUID4-shaped the outcome is the one
\* computed on the union of the name-equality result and the UUID-prefix result.
C7_OutcomeOnUnion ==
    (RemoteCallDone /\ ~is_uuid4(identifier) /\ last.net = "up") =>
        OutcomeOn(ListByName(Searched, identifier) \cup ListByUuidPrefix(Searched, identifier),
                  result)

\* C7 as the code has it: the outcome is the one computed on the name-equality
\* result when it is not empty and on the UUID-prefix result otherwise, and the
\* UUID-prefix query is issued exactly when the name-equality result is empty.
C7_OutcomeOnNameElseUuidPrefix ==
    (RemoteCallDone /\ ~is_uuid4(identifier) /\ last.net = "up") =>
        /\ OutcomeOn(IF ListByName(Searched, identifier) # {}
                     THEN ListByName(Searched, identifier)
                     ELSE ListByUuidPrefix(Searched, identifier),
                     result)
        /\ (Len(result.calls) = 2) <=> (ListByName(Searched, identifier) = {})

\* one object has the identifier as its name, another has it as a prefix of its
\* uuid, and the first is resolved
C7_Witness ==
    /\ RemoteCallDone
    /\ ~is_uuid4(identifier)
    /\ last.net = "up"
    /\ Cardinality(ListByName(Searched, identifier)) = 1
    /\ ListByUuidPrefix(Searched, identifier) \ ListByName(Searched, identifier) # {}
    /\ result.tag = "obj"
    /\ result.obj \in ListByName(Searched, identifier)

\* C8: for a UUID4-shaped identifier only a fetch-by-id is issued; when the fetch
\* fails the outcome is NotFound, and it is never NonUnique, whatever a search by
\* name or by UUID prefix would have found.
C8_Uuid4FetchOnly ==
    (RemoteCallDone /\ is_uuid4(identifier)) =>
        /\ result.calls = <<"fetch">>
        /\ result.tag # "NonUniqueIdentifier"
        /\ (last.net = "first_call_fails" \/ Fetch(Searched, identifier) = {}) =>
              /\ result.tag = "ObjectNotFound"
              /\ result.how = IF last.raise_exceptions THEN "raise" ELSE "return"

\* the fetch failed and NotFound is the outcome although two objects bear the
\* identifier as their name
C8_Witness ==
    /\ RemoteCallDone
    /\ is_uuid4(identifier)
    /\ Cardinality(ListByName(Searched, identifier)) > 1
    /\ result.tag = "ObjectNotFound"
    /\ result.calls = <<"fetch">>

----------------------------------------------------------------------------
(* Strict and non-strict calls. *)

Resolvers == RemoteResolvers \cup {"fetch_local_app_container"}

\* the same call, of the same resolver on the same sources, with the other flag
OtherMode ==
    IF call = "fetch_remote_app"
    THEN fetch_remote_app(identifier, ~last.raise_exceptions, last.net)
    ELSE IF call = "fetch_remote_container"
         THEN fetch_remote_container(identifier, ~last.raise_exceptions, last.net)
         ELSE fetch_local_app_container(identifier, ~last.raise_exceptions, last.docker_down)

StrictOutcome == IF last.raise_exceptions THEN result ELSE OtherMode
NonStrictOutcome == IF last.raise_exceptions THEN OtherMode ELSE result

\* C9: the strict call raises ObjectNotFound or NonUniqueIdentifier exactly when the
\* non-strict call returns that error as a value (the local resolver as (None, error)),
\* both do the same otherwise, and the non-strict call never raises either error.
C9_StrictAndNonStrictAgree ==
    (call \in Resolvers /\ pc = "done") =>
        /\ ~(NonStrictOutcome.how = "raise" /\ NonStrictOutcome.tag \in ResolutionErrors)
        /\ ~(StrictOutcome.how = "return" /\ StrictOutcome.tag \in ResolutionErrors)
        /\ \A e \in ResolutionErrors :
              (StrictOutcome.how = "raise" /\ StrictOutcome.tag = e)
                  <=> (NonStrictOutcome.how = "return" /\ NonStrictOutcome.tag = e)
        /\ StrictOutcome.tag \notin ResolutionErrors => StrictOutcome = NonStrictOutcome
        /\ NonStrictOutcome.tag \in ResolutionErrors =>
              /\ NonStrictOutcome.obj = NoObj
              /\ call = "fetch_local_app_container" => NonStrictOutcome.is_app = "None"

\* a strict call of the local resolver raised NonUniqueIdentifier
C9_Witness ==
    /\ call = "fetch_local_app_container"
    /\ pc = "done"
    /\ last.raise_exceptions
    /\ result.how = "raise"
    /\ result.tag = "NonUniqueIdentifier"

----------------------------------------------------------------------------
(* Properties of the local resolver called directly. *)

LocalCallDone ==
    /\ call = "fetch_local_app_container"
    /\ pc = "done"
    /\ ~last.docker_down

\* the engine's tutum containers whose id starts with the identifier or whose name is it
MatchingContainers ==
    {i \in 1..Len(engine) :
        /\ IsTutumContainer(engine[i])
        /\ \/ StartsWith(engine[i].Id, identifier)
           \/ Tail(engine[i].Name) = identifier}

\* the applications of the engine's tutum containers whose name is the identifier
MatchingApps ==
    {get_app_name_from_container_name(Tail(engine[i].Name)) :
        i \in {j \in 1..Len(engine) : IsTutumContainer(engine[j])}} \cap {identifier}

\* C10: NonUniqueIdentifier is the outcome when more than one container matches, or
\* when exactly one application and exactly one container match; an identifier
\* that matches in both categories is never resolved.
C10_StraddlingIsNonUnique ==
    LocalCallDone =>
        /\ (\/ Cardinality(MatchingContainers) > 1
            \/ Cardinality(MatchingApps) = 1 /\ Cardinality(MatchingContainers) = 1) =>
              /\ result.tag = "NonUniqueIdentifier"
              /\ result.how = IF last.raise_exceptions THEN "raise" ELSE "return"
              /\ result.obj = NoObj
        /\ result.tag = "obj" => (MatchingApps = {} \/ MatchingContainers = {})

\* one application and one container match the identifier and it is not resolved
C10_Witness ==
    /\ LocalCallDone
    /\ Cardinality(MatchingApps) = 1
    /\ Cardinality(MatchingContainers) = 1
    /\ result.tag = "NonUniqueIdentifier"

\* the uuids of the engine's tutum containers grouped under the identifier, in listing order
RECURSIVE UuidsOfApp(_, _)
UuidsOfApp(listing, app) ==
    IF listing = <<>>
    THEN <<>>
    ELSE IF /\ IsTutumContainer(Head(listing))
            /\ get_app_name_from_container_name(Tail(Head(listing).Name)) = app
         THEN <<Head(listing).Id>> \o UuidsOfApp(Tail(listing), app)
         ELSE UuidsOfApp(Tail(listing), app)

\* C11: the local resolver's outcome is ObjectNotFound exactly when no application
\* and no container matches; with one matching application and no matching
\* container it returns (True, that application), and with one matching container
\* and no matching application it returns (False, that container).
C11_LocalSingleMatchIsReturned ==
    LocalCallDone =>
        /\ result.tag = "ObjectNotFound" <=> (MatchingApps = {} /\ MatchingContainers = {})
        /\ (Cardinality(MatchingApps) = 1 /\ MatchingContainers = {}) =>
              /\ result.how = "return"
              /\ result.tag = "obj"
              /\ result.is_app = "True"
              /\ result.obj.app = identifier
              /\ [i \in 1..Len(result.obj.app_config.containers) |->
                      result.obj.app_config.containers[i].uuid]
                    = UuidsOfApp(engine, identifier)
        /\ (MatchingApps = {} /\ Cardinality(MatchingContainers) = 1) =>
              /\ result.how = "return"
              /\ result.tag = "obj"
              /\ result.is_app = "False"
              /\ \A i \in MatchingContainers :
                    /\ result.obj.uuid = engine[i].Id
                    /\ result.obj.name = Tail(engine[i].Name)

\* one container and no application matches, and the container is returned
C11_Witness ==
    /\ LocalCallDone
    /\ MatchingApps = {}
    /\ Cardinality(MatchingContainers) = 1
    /\ result.is_app = "False"
    /\ result.tag = "obj"

\* the identifier is the first characters of s, or all of them
IsPrefixOf(s) == \E n \in 0..Len(s) : SubSeq(s, 1, n) = identifier

\* C12: an application of the inventory counts as a match exactly when the
\* identifier equals its name; a container counts as a match exactly when the
\* identifier equals its full id, is a prefix of its id or equals its display
\* name; each matching container is counted once and nothing else is counted.
C12_MatchDefinitions ==
    LocalCallDone =>
        LET current_apps == get_current_apps_and_its_containers
            apps == identified_apps(current_apps, identifier)
            containers == identified_containers(current_apps, identifier)
        IN /\ \A app \in DOMAIN current_apps : app \in apps <=> app = identifier
           /\ apps \subseteq DOMAIN current_apps
           /\ \A app \in DOMAIN current_apps :
                 \A i \in 1..Len(current_apps[app].containers) :
                    <<app, i>> \in containers <=>
                        \/ current_apps[app].containers[i].uuid = identifier
                        \/ IsPrefixOf(current_apps[app].containers[i].uuid)
                        \/ current_apps[app].containers[i].name = identifier
           /\ \A c \in containers :
                 /\ c[1] \in DOMAIN current_apps
                 /\ c[2] \in 1..Len(current_apps[c[1]].containers)
           /\ Cardinality(containers) = Cardinality(MatchingContainers)
           /\ apps = MatchingApps

\* a short prefix of the ids of two containers of one application matches both of
\* them, matches no application, and the call is refused as ambiguous
C12_Witness ==
    /\ LocalCallDone
    /\ identifier = s_c1
    /\ Cardinality(identified_containers(get_current_apps_and_its_containers, identifier)) = 2
    /\ identified_apps(get_current_apps_and_its_containers, identifier) = {}
    /\ result.tag = "NonUniqueIdentifier"

----------------------------------------------------------------------------
(* Properties of fetch_app. *)

\* fetch_app was called and both of its lookups returned
FetchAppDone ==
    /\ call = "fetch_app"
    /\ pc = "done"
    /\ fetch_remote_app(identifier, FALSE, last.net).how = "return"
    /\ ~last.docker_down

RemoteLookup == fetch_remote_app(identifier, FALSE, last.net)
LocalLookup == fetch_local_app_container(identifier, FALSE, FALSE)

LocalAppResolved == LocalLookup.tag = "obj" /\ LocalLookup.is_app = "True"

C29_NeverALocalContainer ==
    FetchAppDone =>
        /\ result.how = "return" =>
              \/ result.remote = "True" /\ result.obj \in remoteApps
              \/ /\ result.remote = "False"
                 /\ DOMAIN result.obj = {"app", "app_config"}
                 /\ result.obj.app = identifier
                 /\ MatchingApps = {identifier}
        /\ (/\ RemoteLookup.tag = "ObjectNotFound"
            /\ MatchingApps = {}
            /\ Cardinality(MatchingContainers) = 1) =>
              result = FRaise("ObjectNotFound")

\* only a local container bears the identifier and fetch_app raises ObjectNotFound
C29_Witness ==
    /\ FetchAppDone
    /\ RemoteLookup.tag = "ObjectNotFound"
    /\ MatchingApps = {}
    /\ Cardinality(MatchingContainers) = 1
    /\ result = FRaise("ObjectNotFound")

----------------------------------------------------------------------------
(* Properties of the identifier classifier. *)

LowerHex == {"0", "1", "2", "3", "4", "5", "6", "7", "8", "9", "a", "b", "c", "d", "e", "f"}

\* the character without its case, as far as hexadecimal digits go
Lower(c) ==
    CASE c = "A" -> "a" [] c = "B" -> "b" [] c = "C" -> "c"
      [] c = "D" -> "d" [] c = "E" -> "e" [] c = "F" -> "f"
      [] OTHER -> c

AllHex(g) == \A i \in 1..Len(g) : Lower(g[i]) \in LowerHex

\* the first 36 characters of s are five groups of 8, 4, 4, 4 and 12 hexadecimal
\* digits of either case separated by dashes, the third group starting with 4 and
\* the fourth with 8, 9, a or b
Uuid4AtStart(s) ==
    /\ Len(s) >= 36
    /\ LET g1 == SubSeq(s, 1, 8)
           g2 == SubSeq(s, 10, 13)
           g3 == SubSeq(s, 15, 18)
           g4 == SubSeq(s, 20, 23)
           g5 == SubSeq(s, 25, 36)
       IN /\ SubSeq(s, 1, 36) = g1 \o Dash \o g2 \o Dash \o g3 \o Dash \o g4 \o Dash \o g5
          /\ AllHex(g1) /\ AllHex(g2) /\ AllHex(g3) /\ AllHex(g4) /\ AllHex(g5)
          /\ Head(g3) = "4"
          /\ Lower(Head(g4)) \in {"8", "9", "a", "b"}

\* C14 as stated: fetch_remote_app takes the fetch-by-id path exactly when the
\* identifier is a full UUID4 of 36 characters; every other identifier, a longer
\* string that starts with a full UUID4 included, takes the two-query search path.
C14_FetchPathIffWholeUuid4 ==
    (call = "fetch_remote_app" /\ pc = "done") =>
        /\ result.calls = <<"fetch">> <=> (Len(identifier) = 36 /\ Uuid4AtStart(identifier))
        /\ ~(Len(identifier) = 36 /\ Uuid4AtStart(identifier)) =>
              Head(result.calls) = "list_unique_name"

\* C15: is_uuid4 returns true exactly for the strings that match the canonical
\* UUID4 pattern at their start, in either case, and false for shorter prefixes
\* of a UUID4 and for names.
C15_TrueIffUuid4AtStart ==
    (call = "is_uuid4" /\ pc = "done") =>
        /\ result.how = "return"
        /\ result.obj.value = "True" <=> Uuid4AtStart(identifier)
        /\ result.obj.value = "False" <=> ~Uuid4AtStart(identifier)

\* a UUID4 with its variant digit in upper case, followed by a name, is recognised
C15_Witness ==
    /\ call = "is_uuid4"
    /\ pc = "done"
    /\ identifier = UUID_D \o Dash \o s_web
    /\ result.obj.value = "True"

----------------------------------------------------------------------------
(* Properties of the application status. *)

\* the list _calculate_local_app_status was given has a member with this status
SomeMember(status) ==
    \E i \in 1..Len(result.obj.container_list) :
        result.obj.container_list[i].status = status

\* C18: for a list of member statuses that is not empty, the application status is
\* Running when a member is Running and none is Stopped or Stopped with errors,
\* Partly running when a member is Running and a member is not, Stopped with
\* errors when none is Running, one is Stopped with errors and none is Stopped,
\* and Stopped otherwise.
C18_AggregateStatus ==
    (/\ call = "_calculate_local_app_status"
     /\ pc = "done"
     /\ result.obj.container_list # <<>>) =>
        /\ result.how = "return"
        /\ result.obj.value =
              IF /\ SomeMember("Running")
                 /\ ~SomeMember("Stopped")
                 /\ ~SomeMember("Stopped with errors")
              THEN "Running"
              ELSE IF /\ SomeMember("Running")
                      /\ \E i \in 1..Len(result.obj.container_list) :
                            result.obj.container_list[i].status # "Running"
                   THEN "Partly running"
                   ELSE IF /\ ~SomeMember("Running")
                           /\ SomeMember("Stopped with errors")
                           /\ ~SomeMember("Stopped")
                        THEN "Stopped with errors"
                        ELSE "Stopped"

\* one member stopped cleanly, one stopped with an error: the application is Stopped
C18_Witness ==
    /\ call = "_calculate_local_app_status"
    /\ pc = "done"
    /\ result.obj.container_list = <<[status |-> "Stopped"], [status |-> "Stopped with errors"]>>
    /\ result.obj.value = "Stopped"

----------------------------------------------------------------------------
(* Properties of the inventory builder. *)

InventoryDone ==
    /\ call = "get_current_apps_and_its_containers"
    /\ pc = "done"
    /\ result.how = "return"

\* the name is local-<app>-<index>: <app> is not empty and made of letters, digits,
\* "_" and "-", <index> is not empty and made of digits
FollowsConvention(name) ==
    \E k \in 1..Len(name) :
        LET app == SubSeq(name, 7, k - 1)
            index == SubSeq(name, k + 1, Len(name))
        IN /\ name = <<"l", "o", "c", "a", "l", "-">> \o app \o Dash \o index
           /\ app # <<>>
           /\ index # <<>>
           /\ \A j \in 1..Len(app) : app[j] \in NameChars
           /\ \A j \in 1..Len(index) : index[j] \in Digits

\* the CPU shares and the memory limit are those of one row of the size table
SameBucket(inspected_container) ==
    \E size \in DOMAIN CONTAINER_SIZE :
        /\ CONTAINER_SIZE[size].cpu_shares = inspected_container.CpuShares
        /\ CONTAINER_SIZE[size].memory = inspected_container.Memory

\* the positions of the engine's listing that hold the platform's containers
Qualifying ==
    {i \in 1..Len(engine) :
        FollowsConvention(Tail(engine[i].Name)) /\ SameBucket(engine[i])}

LastDash(name) ==
    CHOOSE k \in 1..Len(name) :
        name[k] = "-" /\ \A j \in (k + 1)..Len(name) : name[j] # "-"

\* local-<app>-<index> without -<index>, and <app> alone
WithoutIndex(name) == SubSeq(name, 1, LastDash(name) - 1)
AppPart(name) == SubSeq(name, 7, LastDash(name) - 1)

\* the inventory holds a container with this id
Listed(id) ==
    \E app \in DOMAIN result.obj.current_apps :
        \E j \in 1..Len(result.obj.current_apps[app].containers) :
            result.obj.current_apps[app].containers[j].uuid = id

\* C16 as stated: the inventory has one key per distinct <app> part of the
\* qualifying containers' names local-<app>-<index> (web and db for local-web-1,
\* local-web-2 and local-db-1), each holding its containers in listing order.
C16_KeysAreAppParts ==
    InventoryDone =>
        DOMAIN result.obj.current_apps = {AppPart(Tail(engine[i].Name)) : i \in Qualifying}

\* C16 amended: the inventory has one key per distinct name-without-index
\* local-<app> of the qualifying containers (local-web and local-db for
\* local-web-1, local-web-2 and local-db-1), and each key holds exactly the
\* qualifying containers of that name, once each, in the engine's listing order.
C16_KeysAreNamesWithoutIndex ==
    InventoryDone =>
        LET current_apps == result.obj.current_apps
            position(id) == CHOOSE i \in 1..Len(engine) : engine[i].Id = id
        IN /\ DOMAIN current_apps = {WithoutIndex(Tail(engine[i].Name)) : i \in Qualifying}
           /\ \A app \in DOMAIN current_apps :
                 LET containers == current_apps[app].containers
                 IN /\ {containers[j].uuid : j \in 1..Len(containers)}
                         = {engine[i].Id : i \in {q \in Qualifying :
                                WithoutIndex(Tail(engine[q].Name)) = app}}
                    /\ \A j1, j2 \in 1..Len(containers) :
                          j1 < j2 => position(containers[j1].uuid) < position(containers[j2].uuid)

\* local-web-1, local-db-1, local-web-2 are listed in this order: two keys, the
\* first holding local-web-1 then local-web-2
C16_Witness ==
    /\ InventoryDone
    /\ [i \in 1..Len(engine) |-> Tail(engine[i].Name)]
          = <<s_local_web_1, s_local_db_1, s_local_web_2>>
    /\ DOMAIN result.obj.current_apps = {s_local_web, WithoutIndex(s_local_db_1)}
    /\ [j \in 1..2 |-> result.obj.current_apps[s_local_web].containers[j].name]
          = <<s_local_web_1, s_local_web_2>>

\* C17: a container the engine lists is in the inventory exactly when its name
\* follows local-<app>-<index> and its CPU shares and memory limit belong to the
\* same row of the size table; a container failing either test is in no
\* application of the inventory.
C17_ListedIffQualifying ==
    InventoryDone =>
        \A i \in 1..Len(engine) : Listed(engine[i].Id) <=> i \in Qualifying

\* a container whose CPU shares are of one size and whose memory is of another is
\* left out while a container listed with it is kept
C17_Witness ==
    /\ InventoryDone
    /\ \E i \in 1..Len(engine) :
          /\ engine[i].CpuShares = 256
          /\ engine[i].Memory = "536870912"
          /\ FollowsConvention(Tail(engine[i].Name))
          /\ ~Listed(engine[i].Id)
    /\ \E i \in 1..Len(engine) : Listed(engine[i].Id)

Min(S) == CHOOSE x \in S : \A y \in S : x <= y

\* C19: deployed of an application is the minimum of the time the inventory was
\* built and the creation times of all its containers, whatever their order.
C19_DeployedIsEarliest ==
    InventoryDone =>
        \A app \in DOMAIN result.obj.current_apps :
            result.obj.current_apps[app].deployed =
                Min({now} \cup {engine[i].Created :
                        i \in {q \in Qualifying : WithoutIndex(Tail(engine[q].Name)) = app}})

\* C20: a container of the inventory is Running when the engine reports it
\* running, whatever its exit code; when it is not running it is Stopped with
\* exit code 0 and Stopped with errors with any other exit code.
C20_ContainerStatus ==
    InventoryDone =>
        \A app \in DOMAIN result.obj.current_apps :
            \A j \in 1..Len(result.obj.current_apps[app].containers) :
                LET container == result.obj.current_apps[app].containers[j]
                    inspected == CHOOSE e \in {engine[i] : i \in 1..Len(engine)} :
                                     e.Id = container.uuid
                IN /\ inspected.Running => container.status = "Running"
                   /\ (~inspected.Running /\ inspected.ExitCode = 0) =>
                         container.status = "Stopped"
                   /\ (~inspected.Running /\ inspected.ExitCode # 0) =>
                         container.status = "Stopped with errors"

\* a container that is running and bears an exit code is in the inventory as Running
C20_Witness ==
    /\ InventoryDone
    /\ \E app \in DOMAIN result.obj.current_apps :
          \E j \in 1..Len(result.obj.current_apps[app].containers) :
              /\ result.obj.current_apps[app].containers[j].exit_code # 0
              /\ result.obj.current_apps[app].containers[j].status = "Running"


----------------------------------------------------------------------------
(* Properties of the inventory build as a whole. *)

InventoryCallOver ==
    /\ call = "get_current_apps_and_its_containers"
    /\ pc = "done"

C22_AllOrNothing ==
    InventoryCallOver =>
        LET calls == last.calls
            inspections == {i \in 1..Len(calls) : calls[i].op = "inspect_container"}
        IN /\ (last.docker_down \/ last.inspect_fails # 0) =>
                 /\ result.how = "raise"
                 /\ result.obj = NoObj
           /\ last.docker_down =>
                 /\ result.tag = "DockerNotFound"
                 /\ calls = <<[op |-> "version", id |-> <<>>]>>
           /\ (~last.docker_down /\ last.inspect_fails # 0) =>
                 /\ Cardinality(inspections) = last.inspect_fails
                 /\ calls[Len(calls)].id = engine[last.inspect_fails].Id
           /\ \A i, j \in 1..Len(calls) : i # j => calls[i] # calls[j]
           /\ \A i \in inspections :
                 \E k \in 1..Len(engine) : engine[k].Id = calls[i].id

\* the inspection of a container that is not one of the platform's fails after
\* the inspection of one that is
C22_Witness ==
    /\ InventoryCallOver
    /\ ~last.docker_down
    /\ last.inspect_fails = 2
    /\ 1 \in Qualifying
    /\ 2 \notin Qualifying
    /\ result = IRaise("APIError")


----------------------------------------------------------------------------
(* Properties of the local resolver across engine changes. *)

\* C23: the outcome of fetch_local_app_container is that of the engine as it is
\* at the call: a container it returns is listed by the engine now, with the
\* status it has now; an application it returns holds the containers the
\* engine lists for it now; ObjectNotFound is the outcome exactly when nothing
\* matches now, and NonUniqueIdentifier exactly when two containers, or one
\* application and one container, match now.
C23_OutcomeIsOfTheEngineNow ==
    LocalCallDone =>
        /\ result.tag = "ObjectNotFound" <=> (MatchingApps = {} /\ MatchingContainers = {})
        /\ (result.tag = "obj" /\ result.is_app = "False") =>
              \E i \in MatchingContainers :
                  /\ result.obj.uuid = engine[i].Id
                  /\ result.obj.status = ContainerStatus(engine[i])
                  /\ result.obj.exit_code = engine[i].ExitCode
        /\ (result.tag = "obj" /\ result.is_app = "True") =>
              LET containers == result.obj.app_config.containers
              IN /\ [i \in 1..Len(containers) |-> containers[i].uuid]
                       = UuidsOfApp(engine, identifier)
                 /\ \A i \in 1..Len(containers) :
                       \E k \in 1..Len(engine) :
                           /\ engine[k].Id = containers[i].uuid
                           /\ containers[i].status = ContainerStatus(engine[k])
        /\ result.tag = "NonUniqueIdentifier" <=>
              \/ Cardinality(MatchingContainers) > 1
              \/ Cardinality(MatchingApps) = 1 /\ Cardinality(MatchingContainers) = 1

\* a container that an earlier call resolved has been removed since, and the
\* same identifier is now not found
C23_Witness ==
    /\ LocalCallDone
    /\ "previous" \in DOMAIN last
    /\ last.previous.tag = "obj"
    /\ last.previous.is_app = "False"
    /\ \A i \in 1..Len(engine) : engine[i].Id # last.previous.obj.uuid
    /\ result.tag = "ObjectNotFound"


----------------------------------------------------------------------------
(* Properties of create_containers_for_an_app. *)

CreateDone ==
    /\ call = "create_containers_for_an_app"
    /\ pc = "done"

\* the links of the containers named before position i of the call
LinksOfEarlier(container_names, i) ==
    [n \in {container_names[j] : j \in 1..(i - 1)} |-> n \o s_link]

\* C30: in a call that omits already_deployed the first container started is
\* linked to no container and the i-th is linked exactly to the containers the
\* same call created before it, whatever calls were made before in the process.
C30_OmittedStartsFromNoLinks ==
    (CreateDone /\ last.omitted) =>
        \A i \in 1..Len(result.obj.starts) :
            result.obj.starts[i].links = LinksOfEarlier(last.container_names, i)


----------------------------------------------------------------------------
(* Properties of the commands. *)

\* what the command did for its i-th identifier, and the lookups among it
EventsOf(i) ==
    LET mine(e) == e.identifier = i
    IN SelectSeq(cli.events, mine)

LookupsOf(i) ==
    LET lookup(e) == e.identifier = i /\ e.what = "lookup"
    IN SelectSeq(cli.events, lookup)

Did(i, what) == {k \in 1..Len(EventsOf(i)) : EventsOf(i)[k].what = what}

TagKinds == <<"Service", "NodeCluster", "Node">>

\* C24: a tag command queries the kinds in the order Service, NodeCluster, Node;
\* a kind is queried exactly when every kind before it answered ObjectNotFound;
\* the kind that resolves is the kind the tags are read or written on; and when
\* the three kinds answer ObjectNotFound there is one error, an ObjectNotFound
\* naming service, node and nodecluster.
C24_KindsInFixedOrder ==
    cli.cmd \in TagCommands =>
        \A i \in 1..cli.done :
            LET lookups == LookupsOf(i)
                n == Len(lookups)
            IN /\ n \in 1..3
               /\ \A k \in 1..n : lookups[k].kind = TagKinds[k]
               /\ \A k \in 1..(n - 1) : lookups[k].outcome = "ObjectNotFound"
               /\ lookups[n].outcome = "ObjectNotFound" => n = 3
               /\ lookups[n].outcome = "obj" =>
                     /\ Did(i, "tag_op") # {}
                     /\ \A k \in Did(i, "tag_op") : EventsOf(i)[k].kind = TagKinds[n]
                     /\ \A k \in Did(i, "print") : EventsOf(i)[k].kind = TagKinds[n]
               /\ lookups[n].outcome = "ObjectNotFound" =>
                     /\ Cardinality(Did(i, "error")) = 1
                     /\ \A k \in Did(i, "error") :
                           /\ EventsOf(i)[k].outcome = "ObjectNotFound"
                           /\ EventsOf(i)[k].kind = AllKinds
                     /\ Did(i, "tag_op") = {}

\* no service and one node cluster bear the identifier: Node is not queried
\* and the tags are those of the node cluster
C24_Witness ==
    /\ cli.cmd \in TagCommands
    /\ cli.done >= 1
    /\ Len(LookupsOf(1)) = 2
    /\ LookupsOf(1)[1] = Event(1, "lookup", "Service", "ObjectNotFound")
    /\ LookupsOf(1)[2] = Event(1, "lookup", "NodeCluster", "obj")
    /\ \E k \in Did(1, "tag_op") : EventsOf(1)[k] = Event(1, "tag_op", "NodeCluster", "True")

\* C25: in a tag command a kind that answers NonUniqueIdentifier is the last
\* kind queried for the identifier, the failure reported for the identifier is
\* NonUniqueIdentifier, the identifier is reported under no kind and no tag
\* operation is attempted for it.
C25_NonUniqueEndsTheIdentifier ==
    cli.cmd \in TagCommands =>
        \A i \in 1..cli.done :
            LET lookups == LookupsOf(i)
            IN (\E k \in 1..Len(lookups) : lookups[k].outcome = "NonUniqueIdentifier") =>
                  /\ lookups[Len(lookups)].outcome = "NonUniqueIdentifier"
                  /\ \E k \in Did(i, "error") :
                        EventsOf(i)[k].outcome = "NonUniqueIdentifier"
                  /\ Did(i, "tag_op") = {}
                  /\ \A k \in Did(i, "row") \cup Did(i, "print") :
                        EventsOf(i)[k].outcome = ""

Failures == {k \in 1..Len(cli.events) : cli.events[k].what = "error"}

\* C27: a command that failed on the authentication ends with code 2, a command
\* that failed otherwise ends with code 3, a command that did not fail ends
\* with code 0; a failure of the authentication is never reported with code 3.
C27_ExitCodePerErrorClass ==
    cli.exit_code # -1 =>
        /\ (\E k \in Failures : cli.events[k].outcome = "TutumAuthError") =>
              cli.exit_code = TUTUM_AUTH_ERROR_EXIT_CODE
        /\ (Failures # {} /\ \A k \in Failures : cli.events[k].outcome # "TutumAuthError") =>
              cli.exit_code = EXCEPTION_EXIT_CODE
        /\ Failures = {} => cli.exit_code = 0

\* the port spec is <int>/(tcp|udp)
IsPortSpec(port) ==
    \E k \in 1..Len(port) :
        /\ k > 1
        /\ port[k] = "/"
        /\ \A j \in 1..(k - 1) : port[j] \in Digits
        /\ SubSeq(port, k + 1, Len(port)) \in {<<"t", "c", "p">>, <<"u", "d", "p">>}

\* C28: with a port spec that is not <int>/(tcp|udp), service_set looks no
\* identifier up, and parse_ports raises BadParameter and returns no list, not
\* even of the port specs before the malformed one.
C28_MalformedPortBeforeAnyLookup ==
    (cli.cmd = "service_set" /\ \E k \in 1..Len(cli.publish) : ~IsPortSpec(cli.publish[k])) =>
        /\ \A k \in 1..Len(cli.events) : cli.events[k].what # "lookup"
        /\ parse_ports(cli.publish) = [how |-> "raise", value |-> <<>>]

====
